---- MODULE Spec2Model ----
(***************************************************************************)
(* Tournament engine (src/tournament_engine.py): teams, matches and        *)
(* standings, and the operations that carry a tournament from group        *)
(* division through round-robin fixtures, scheduling and result recording  *)
(* to the knockout stages.                                                 *)
(*                                                                         *)
(* Python values are modelled as follows.  None is the string "None" for   *)
(* the string-valued fields (group, winner_name), 0 for winner_id (team    *)
(* ids are positive) and -1 for the two timestamps; a timestamp is a       *)
(* number of seconds.  A list is a sequence, a dict is a sequence of       *)
(* entries in insertion order.                                             *)
(***************************************************************************)
EXTENDS Integers, Sequences, FiniteSets, TLC

\* ------------------------------------------------------------------ bounds
NumTeams == 3       \* teams loaded before the tournament starts
MaxScore == 1       \* scores entered are 0..MaxScore
MaxMatches == 3     \* no quarterfinal is generated once the list has this many matches
MaxParallel == 2    \* parallel_matches is 1..MaxParallel
MaxCalls == 5       \* engine calls made in one behaviour
MaxGroupTeams == 4  \* SpecGroups loads 0..MaxGroupTeams teams
MaxGroupCalls == 5  \* engine calls made in one behaviour of SpecGroups
MaxDivideCalls == 2 \* divisions made in one behaviour of SpecDivide
MaxRoundRobinTeams == 4     \* SpecRoundRobin loads 0..MaxRoundRobinTeams teams
MaxStartId == 3     \* match_id_start is 1..MaxStartId
MaxKnockoutMatches == 5     \* SpecKnockout generates no knockout round once the
                            \* list has this many matches
MaxKnockoutCalls == 10      \* engine calls made in one behaviour of SpecKnockout
MaxRows == 2        \* a sheet of a results file has 0..MaxRows rows
MaxLoadCalls == 4   \* engine calls made in one behaviour of SpecLoad
MaxRestoredId == 3  \* a restored fixture row has a match_id of 1..MaxRestoredId
MaxRestoredTeams == 4       \* a restored Teams sheet has this many rows
MaxRestoreCalls == 5        \* engine calls made in one behaviour of SpecRestore
MaxQualifyTeams == 9        \* SpecQualify loads 0..MaxQualifyTeams teams
MaxQualifyResults == 1      \* results recorded in one behaviour of SpecQualify
MaxDraws == 1       \* drawn matches in one behaviour of SpecTournament
MaxWinnersCalls == 8        \* engine calls made in one behaviour of SpecWinners
MaxRankedRows == 3  \* a ranked Standings sheet has 0..MaxRankedRows rows
MaxRankKey == 1     \* its tiebreaker scores are 0..MaxRankKey
MaxScheduleTeams == 4       \* SpecSchedule loads 0..MaxScheduleTeams teams
MaxScheduleCalls == 5       \* engine calls made in one behaviour of SpecSchedule
MaxScheduleParallel == 3    \* SpecSchedule passes parallel_matches 1..MaxScheduleParallel
MaxQualifiers == 4  \* SpecPairing loads 0..MaxQualifiers teams
MaxPairingMatches == 1      \* SpecPairing pairs no list once the match list has
                            \* this many matches
MaxRoundTripTeams == 4      \* SpecRoundTrip starts with up to this many teams
MaxRoundTripCalls == 6      \* SpecRoundTrip makes at most this many calls
MaxAccountTeams == 3        \* SpecAccounting loads 0..MaxAccountTeams teams
MaxAccountCalls == 6        \* engine calls made in one behaviour of SpecAccounting
MaxBracketEdits == 1        \* results corrected in one behaviour of SpecBracket
MaxLoopTeams == 4   \* SpecScheduleLoop loads 0..MaxLoopTeams teams
MaxLoopCalls == 4   \* engine calls begun in one behaviour of SpecScheduleLoop
MaxNonPositive == 1  \* SpecScheduleLoop passes parallel_matches from -MaxNonPositive
MaxClockBatches == 3        \* datetime.max is this many match durations away
MaxAppTeams == 3    \* SpecApp initialises a tournament of 2..MaxAppTeams teams
MaxAppCalls == 8    \* SpecApp presses at most this many buttons

\* ------------------------------------------------- configuration (config.py)
POINTS_PER_WIN == 2
POINTS_PER_DRAW == 1
POINTS_PER_LOSS == 0
TOTAL_QUALIFIERS_FOR_KNOCKOUT == 8
MATCH_DURATION_MINUTES == 20
\* the values the settings selectbox offers for NUMBER_OF_GROUPS
GroupOptions == {2, 4}
\* timedelta(minutes = MATCH_DURATION_MINUTES), in seconds
SecondsPerMinute == 60
Duration == MATCH_DURATION_MINUTES * SecondsPerMinute

None == "None"
NoId == 0
NoTime == -1

VARIABLES
    teams,              \* TournamentEngine.teams: list of Team
    matches,            \* TournamentEngine.matches: list of Match
    standings,          \* TournamentEngine.standings: dict team_id -> TeamStanding
    NUMBER_OF_GROUPS,   \* TournamentConfig.NUMBER_OF_GROUPS
    groups,             \* the dict returned by the last divide_into_groups
    returned,           \* the last direct generate_round_robin_fixtures call: its
                        \* arguments and the list it returned
    error,              \* the exception the last call raised, None if it returned
    load_result,        \* what load_from_excel returned when it was the last call,
                        \* None after any other call
    knockout,           \* the generate_knockout_fixtures call when it was the last
                        \* call: its arguments and the list it returned
    ranking,            \* the get_group_standings call when it was the last call:
                        \* its argument and the list it returned
    calls,              \* history: the calls counted against the call budget
    edits,              \* history: the number of results recorded over an earlier result
    workbook,           \* the workbook last written by save_to_excel
    frame               \* the running or last stepwise schedule_matches call: its locals

vars == <<teams, matches, standings, NUMBER_OF_GROUPS, groups, returned, error,
          load_result, knockout, ranking, calls, edits, workbook, frame>>

\* ------------------------------------------------------------ data model
\* f'Team {idx + 1}'
TeamName(i) == "Team " \o ToString(i)

Team(id, name, group) ==
    [team_id |-> id, team_name |-> name, group |-> group]

Match(id, t1, t2, stage, group) ==
    [match_id |-> id,
     team1_id |-> t1.team_id, team1_name |-> t1.team_name,
     team2_id |-> t2.team_id, team2_name |-> t2.team_name,
     stage |-> stage, group |-> group,
     scheduled_time |-> NoTime, end_time |-> NoTime,
     team1_score |-> 0, team2_score |-> 0,
     winner_id |-> NoId, winner_name |-> None,
     status |-> "scheduled"]

TeamStanding(id, name, group) ==
    [team_id |-> id, team_name |-> name, group |-> group,
     matches_played |-> 0, wins |-> 0, losses |-> 0, draws |-> 0, points |-> 0,
     score_for |-> 0, score_against |-> 0,
     tiebreaker_score_for |-> 0, tiebreaker_score_against |-> 0]

\* chr(65 + i) for i = idx - 1
group_names == <<"A", "B", "C", "D", "E", "F", "G", "H">>

\* ------------------------------------------------------------ list helpers
Range(s) == {s[i] : i \in 1..Len(s)}

\* next((x for x in s if P(x)), absent): position of the first match, 0 if none
RECURSIVE FirstIndex(_, _, _)
FirstIndex(s, key, i) ==
    IF i > Len(s) THEN 0
    ELSE IF s[i] = key THEN i
    ELSE FirstIndex(s, key, i + 1)

Ids(s) == [i \in 1..Len(s) |-> s[i].team_id]
MatchIds(s) == [i \in 1..Len(s) |-> s[i].match_id]

\* dict.get(team_id): index of the entry, 0 when the key is absent
StandingIndex(st, id) == FirstIndex(Ids(st), id, 1)
\* the Team object with that id in self.teams, 0 when there is none
TeamIndex(ts, id) == FirstIndex(Ids(ts), id, 1)

\* standings[team_id] = value: replaces in place, or appends a new key
DictSet(st, value) ==
    LET i == StandingIndex(st, value.team_id)
    IN  IF i = 0 THEN Append(st, value) ELSE [st EXCEPT ![i] = value]

\* ------------------------------------------------------------- standings
\* one side of _update_standings: the block for the team `me` playing `other`
CreditSide(s, match, me, other, my_score, other_score) ==
    LET played == [s EXCEPT
            !.matches_played = @ + 1,
            !.score_for = @ + my_score,
            !.score_against = @ + other_score,
            !.tiebreaker_score_for = @ + my_score,
            !.tiebreaker_score_against = @ + other_score]
    IN  IF match.winner_id = me
        THEN [played EXCEPT !.wins = @ + 1, !.points = @ + POINTS_PER_WIN]
        ELSE IF match.winner_id = other
        THEN [played EXCEPT !.losses = @ + 1, !.points = @ + POINTS_PER_LOSS]
        ELSE [played EXCEPT !.draws = @ + 1, !.points = @ + POINTS_PER_DRAW]

\* _update_standings(match): team1's block, then team2's block
update_standings(st, match) ==
    LET i1 == StandingIndex(st, match.team1_id)
        st1 == IF i1 = 0 THEN st
               ELSE [st EXCEPT ![i1] = CreditSide(st[i1], match, match.team1_id,
                        match.team2_id, match.team1_score, match.team2_score)]
        i2 == StandingIndex(st1, match.team2_id)
    IN  IF i2 = 0 THEN st1
        ELSE [st1 EXCEPT ![i2] = CreditSide(st1[i2], match, match.team2_id,
                        match.team1_id, match.team2_score, match.team1_score)]

\* for team in self.teams: if team.team_id not in self.standings: add an entry
RECURSIVE EnsureStandings(_, _, _)
EnsureStandings(st, ts, i) ==
    IF i > Len(ts) THEN st
    ELSE EnsureStandings(
            IF StandingIndex(st, ts[i].team_id) = 0
            THEN Append(st, TeamStanding(ts[i].team_id, ts[i].team_name, ts[i].group))
            ELSE st,
            ts, i + 1)

\* Reset all standings to zero
ResetStanding(s) == TeamStanding(s.team_id, s.team_name, s.group)

\* for match in self.matches: if match.status == "completed": _update_standings
\* (a dict without entries is credited nothing and stays empty)
RECURSIVE FoldCompleted(_, _, _)
FoldCompleted(st, ms, i) ==
    IF i > Len(ms) \/ st = <<>> THEN st
    ELSE FoldCompleted(
            IF ms[i].status = "completed" THEN update_standings(st, ms[i]) ELSE st,
            ms, i + 1)

\* variant: the fold runs over the counters as they stand, without the reset
recalculate_without_reset(ts, ms, st) ==
    FoldCompleted(EnsureStandings(st, ts, 1), ms, 1)

recalculate_all_standings(ts, ms, st) ==
    LET ensured == EnsureStandings(st, ts, 1)
        zeroed == [i \in 1..Len(ensured) |-> ResetStanding(ensured[i])]
    IN  FoldCompleted(zeroed, ms, 1)

\* ------------------------------------------------------------ group division
\* teams_copy after random.shuffle: the teams in the order perm gives
Shuffled(ts, perm) == [i \in 1..Len(ts) |-> ts[perm[i]]]

\* the groups dict is a sequence of entries [name, teams] in insertion order;
\* an entry lists its Team objects as the division left them
GroupNames(gs) == [i \in 1..Len(gs) |-> gs[i].name]
GroupIndex(gs, name) == FirstIndex(GroupNames(gs), name, 1)

\* variant: the teams after the first num_groups all join the first group
group_idx_leftover(i, num_groups) == IF i < num_groups THEN i ELSE 0

\* group_idx = i % num_groups for position i (from 0) of teams_copy
group_idx(i, num_groups) == i % num_groups

\* the loop `for i, team in enumerate(teams_copy)`: sets team.group on the
\* Team object (shared with self.teams) and appends the team to its group
RECURSIVE DivideLoop(_, _, _, _, _)
DivideLoop(copy, i, ts, gs, num_groups) ==
    IF i >= Len(copy) THEN [teams |-> ts, groups |-> gs]
    ELSE LET team == copy[i + 1]
             group_name == group_names[group_idx(i, num_groups) + 1]
             k == TeamIndex(ts, team.team_id)
             gi == GroupIndex(gs, group_name)
             set == [ts EXCEPT ![k].group = group_name]
         IN  DivideLoop(copy, i + 1, set,
                IF gi = 0
                THEN Append(gs, [name |-> group_name, teams |-> <<set[k]>>])
                ELSE [gs EXCEPT ![gi].teams = Append(@, set[k])],
                num_groups)

\* Initialize standings: standings[team_id] = TeamStanding(...) for each team
RECURSIVE InitStandings(_, _, _)
InitStandings(st, ts, i) ==
    IF i > Len(ts) THEN st
    ELSE InitStandings(
            DictSet(st, TeamStanding(ts[i].team_id, ts[i].team_name, ts[i].group)),
            ts, i + 1)


\* ------------------------------------------------------------ fixtures
\* itertools.combinations(range(1, n + 1), 2), in the order it yields the pairs
RECURSIVE combinations(_, _, _)
combinations(n, i, j) ==
    IF i >= n THEN <<>>
    ELSE IF j > n THEN combinations(n, i + 1, i + 2)
    ELSE <<(<<i, j>>)>> \o combinations(n, i, j + 1)

\* the Team objects of self.teams with these ids, as a caller lists them
TeamsOf(ts, ids) == [i \in 1..Len(ids) |-> ts[TeamIndex(ts, ids[i])]]

\* variant: the pairs are numbered as by enumerate(..., 1)
generate_round_robin_fixtures_from_one(tlist, stage, match_id_start) ==
    LET pairs == combinations(Len(tlist), 1, 2)
    IN  [i \in 1..Len(pairs) |->
            Match(match_id_start + i, tlist[pairs[i][1]], tlist[pairs[i][2]],
                  stage, tlist[pairs[i][1]].group)]

generate_round_robin_fixtures(tlist, stage, match_id_start) ==
    LET pairs == combinations(Len(tlist), 1, 2)
    IN  [i \in 1..Len(pairs) |->
            Match(match_id_start + (i - 1), tlist[pairs[i][1]], tlist[pairs[i][2]],
                  stage, tlist[pairs[i][1]].group)]

\* sorted(groups.items()): the entries by label
RECURSIVE SortedItems(_, _)
SortedItems(gs, l) ==
    IF l > Len(group_names) THEN <<>>
    ELSE (IF GroupIndex(gs, group_names[l]) = 0 THEN <<>>
          ELSE <<gs[GroupIndex(gs, group_names[l])]>>) \o SortedItems(gs, l + 1)

\* variant: current_match_id is not advanced from one group to the next
RECURSIVE GroupStageLoop_restart(_, _, _, _)
GroupStageLoop_restart(items, i, all_matches, current_match_id) ==
    IF i > Len(items) THEN all_matches
    ELSE GroupStageLoop_restart(items, i + 1,
            all_matches \o generate_round_robin_fixtures(
                                items[i].teams, "group", current_match_id),
            current_match_id)

RECURSIVE GroupStageLoop(_, _, _, _)
GroupStageLoop(items, i, all_matches, current_match_id) ==
    IF i > Len(items) THEN all_matches
    ELSE LET group_matches == generate_round_robin_fixtures(
                    items[i].teams, "group", current_match_id)
         IN  GroupStageLoop(items, i + 1, all_matches \o group_matches,
                            current_match_id + Len(group_matches))

generate_group_stage_fixtures(gs) ==
    GroupStageLoop(SortedItems(gs, 1), 1, <<>>, 1)

\* ------------------------------------------------------------ scheduling
\* variant: end_time = current_time
RECURSIVE ScheduleSlot_without_duration(_, _, _, _, _)
ScheduleSlot_without_duration(ms, sel, match_index, current_time, r) ==
    IF r <= 0 THEN [matches |-> ms, match_index |-> match_index]
    ELSE IF match_index < Len(sel)
    THEN ScheduleSlot_without_duration(
            [ms EXCEPT ![sel[match_index + 1]] =
                [@ EXCEPT !.scheduled_time = current_time,
                          !.end_time = current_time]],
            sel, match_index + 1, current_time, r - 1)
    ELSE ScheduleSlot_without_duration(ms, sel, match_index, current_time, r - 1)

\* `for _ in range(parallel_matches)` at one time slot: r is the rounds left
RECURSIVE ScheduleSlot(_, _, _, _, _)
ScheduleSlot(ms, sel, match_index, current_time, r) ==
    IF r <= 0 THEN [matches |-> ms, match_index |-> match_index]
    ELSE IF match_index < Len(sel)
    THEN ScheduleSlot(
            [ms EXCEPT ![sel[match_index + 1]] =
                [@ EXCEPT !.scheduled_time = current_time,
                          !.end_time = current_time + Duration]],
            sel, match_index + 1, current_time, r - 1)
    ELSE ScheduleSlot(ms, sel, match_index, current_time, r - 1)

\* variant: range(parallel_matches + 1)
RECURSIVE ScheduleLoop_one_more(_, _, _, _, _)
ScheduleLoop_one_more(ms, sel, match_index, current_time, parallel_matches) ==
    IF match_index >= Len(sel) THEN ms
    ELSE LET slot == ScheduleSlot(ms, sel, match_index, current_time, parallel_matches + 1)
         IN  ScheduleLoop_one_more(slot.matches, sel, slot.match_index,
                                   current_time + Duration, parallel_matches)

\* `while match_index < len(matches)`; sel lists the supplied Match objects by
\* their position in self.matches
RECURSIVE ScheduleLoop(_, _, _, _, _)
ScheduleLoop(ms, sel, match_index, current_time, parallel_matches) ==
    IF match_index >= Len(sel) THEN ms
    ELSE LET slot == ScheduleSlot(ms, sel, match_index, current_time, parallel_matches)
         IN  ScheduleLoop(slot.matches, sel, slot.match_index,
                          current_time + Duration, parallel_matches)

schedule_matches(ms, start_time, sel, parallel_matches) ==
    ScheduleLoop(ms, sel, 0, start_time, parallel_matches)

\* get_matches_by_stage(stage), as positions in self.matches
RECURSIVE PositionsWhere(_, _, _)
PositionsWhere(ms, stage, i) ==
    IF i > Len(ms) THEN <<>>
    ELSE (IF ms[i].stage = stage THEN <<i>> ELSE <<>>) \o PositionsWhere(ms, stage, i + 1)

get_matches_by_stage(ms, stage) == PositionsWhere(ms, stage, 1)
AllPositions(ms) == [i \in 1..Len(ms) |-> i]

\* ------------------------------------------------------------ results
\* variant: an id no match has selects the last match of the list
MatchIndex_or_last(ms, match_id) ==
    IF FirstIndex(MatchIds(ms), match_id, 1) = 0 THEN Len(ms)
    ELSE FirstIndex(MatchIds(ms), match_id, 1)

\* next((m for m in self.matches if m.match_id == match_id), None)
MatchIndex(ms, match_id) == FirstIndex(MatchIds(ms), match_id, 1)

\* variant: the winner is the side with the higher score
SetWinner_by_score(match, winner_id) ==
    IF match.team1_score > match.team2_score
    THEN [match EXCEPT !.winner_id = match.team1_id, !.winner_name = match.team1_name]
    ELSE IF match.team2_score > match.team1_score
    THEN [match EXCEPT !.winner_id = match.team2_id, !.winner_name = match.team2_name]
    ELSE [match EXCEPT !.winner_id = NoId, !.winner_name = "Draw"]

\* the winner fields update_match_result sets from the winner_id parameter
SetWinner(match, winner_id) ==
    IF winner_id = match.team1_id
    THEN [match EXCEPT !.winner_id = match.team1_id, !.winner_name = match.team1_name]
    ELSE IF winner_id = match.team2_id
    THEN [match EXCEPT !.winner_id = match.team2_id, !.winner_name = match.team2_name]
    ELSE [match EXCEPT !.winner_id = NoId, !.winner_name = "Draw"]

\* the match list after update_match_result found the match at position i
SetResult(ms, i, team1_score, team2_score, winner_id) ==
    [ms EXCEPT ![i] = SetWinner(
        [@ EXCEPT !.team1_score = team1_score, !.team2_score = team2_score,
                  !.status = "completed"],
        winner_id)]


\* update_match_result once the match is found at position i: the result is
\* stored, then recalculate_all_standings runs
update_match_result(ts, ms, st, i, team1_score, team2_score, winner_id) ==
    LET stored == SetResult(ms, i, team1_score, team2_score, winner_id)
    IN  [matches |-> stored, standings |-> recalculate_all_standings(ts, stored, st)]

\* ------------------------------------------------------------ ranking
tiebreaker_score_difference(s) == s.tiebreaker_score_for - s.tiebreaker_score_against

\* variant: key = (-points, -tiebreaker_score_difference)
KeyLess_without_score_for(a, b) ==
    \/ a.points > b.points
    \/ /\ a.points = b.points
       /\ tiebreaker_score_difference(a) > tiebreaker_score_difference(b)

\* key(a) < key(b) for key = (-points, -tiebreaker_score_difference, -tiebreaker_score_for)
KeyLess(a, b) ==
    \/ a.points > b.points
    \/ /\ a.points = b.points
       /\ tiebreaker_score_difference(a) > tiebreaker_score_difference(b)
    \/ /\ a.points = b.points
       /\ tiebreaker_score_difference(a) = tiebreaker_score_difference(b)
       /\ a.tiebreaker_score_for > b.tiebreaker_score_for

\* list.sort is stable: x goes before the first entry whose key is greater
RECURSIVE InsertSorted(_, _, _)
InsertSorted(sorted, x, i) ==
    IF i > Len(sorted) THEN Append(sorted, x)
    ELSE IF KeyLess(x, sorted[i])
    THEN SubSeq(sorted, 1, i - 1) \o <<x>> \o SubSeq(sorted, i, Len(sorted))
    ELSE InsertSorted(sorted, x, i + 1)

RECURSIVE SortStandings(_, _, _)
SortStandings(lst, i, sorted) ==
    IF i > Len(lst) THEN sorted
    ELSE SortStandings(lst, i + 1, InsertSorted(sorted, lst[i], 1))

RECURSIVE FilterGroup(_, _, _)
FilterGroup(st, group, i) ==
    IF i > Len(st) THEN <<>>
    ELSE (IF st[i].group = group THEN <<st[i]>> ELSE <<>>) \o FilterGroup(st, group, i + 1)

get_group_standings(st, group) ==
    SortStandings(IF group # None THEN FilterGroup(st, group, 1) ELSE st, 1, <<>>)

\* ------------------------------------------------------------ knockout
\* variant: the share of the four-group setting, whatever the setting
get_top_teams_per_group_of_four(num_groups) == TOTAL_QUALIFIERS_FOR_KNOCKOUT \div 4

\* variant: every group sends TOTAL_QUALIFIERS_FOR_KNOCKOUT teams
get_top_teams_per_group_total(num_groups) == TOTAL_QUALIFIERS_FOR_KNOCKOUT

get_top_teams_per_group(num_groups) == TOTAL_QUALIFIERS_FOR_KNOCKOUT \div num_groups

Prefix(s, n) == SubSeq(s, 1, IF n < Len(s) THEN n ELSE Len(s))

\* set(team.group for team in self.teams if team.group)
TeamGroups(ts) == {ts[i].group : i \in 1..Len(ts)} \ {None}

\* get_top_teams_from_groups as the entries [name, standings] of the dict,
\* already in the sorted label order generate_quarterfinals reads them in
RECURSIVE TopTeamsItems(_, _, _, _)
TopTeamsItems(ts, st, num_groups, l) ==
    IF l > Len(group_names) THEN <<>>
    ELSE (IF group_names[l] \in TeamGroups(ts)
          THEN <<[name |-> group_names[l],
                  standings |-> Prefix(get_group_standings(st, group_names[l]),
                                       get_top_teams_per_group(num_groups))]>>
          ELSE <<>>) \o TopTeamsItems(ts, st, num_groups, l + 1)

get_top_teams_from_groups(ts, st, num_groups) == TopTeamsItems(ts, st, num_groups, 1)

\* for standing in standings: the Team with that id, when there is one
RECURSIVE TeamsOfIds(_, _, _)
TeamsOfIds(ts, ids, i) ==
    IF i > Len(ids) THEN <<>>
    ELSE (IF TeamIndex(ts, ids[i]) # 0 THEN <<ts[TeamIndex(ts, ids[i])]>> ELSE <<>>)
         \o TeamsOfIds(ts, ids, i + 1)

RECURSIVE QualifiedLoop(_, _, _)
QualifiedLoop(ts, items, i) ==
    IF i > Len(items) THEN <<>>
    ELSE TeamsOfIds(ts, Ids(items[i].standings), 1) \o QualifiedLoop(ts, items, i + 1)

\* the qualifier list generate_quarterfinals builds
Qualified(ts, st, num_groups) ==
    QualifiedLoop(ts, get_top_teams_from_groups(ts, st, num_groups), 1)

\* variant: neighbours are paired, first with second, third with fourth
generate_knockout_fixtures_adjacent(ms, qualified_teams, stage) ==
    LET match_id_start == Len(ms) + 1
        num_teams == Len(qualified_teams)
    IN  [k \in 1..(num_teams \div 2) |->
            Match(match_id_start + (k - 1), qualified_teams[2 * k - 1],
                  qualified_teams[2 * k], stage, None)]

\* variant: match_id_start = len(self.matches)
generate_knockout_fixtures_from_len(ms, qualified_teams, stage) ==
    LET num_teams == Len(qualified_teams)
    IN  [k \in 1..(num_teams \div 2) |->
            Match(Len(ms) + (k - 1), qualified_teams[k],
                  qualified_teams[num_teams - k + 1], stage, None)]

\* the matches generate_knockout_fixtures creates and appends
generate_knockout_fixtures(ms, qualified_teams, stage) ==
    LET match_id_start == Len(ms) + 1
        num_teams == Len(qualified_teams)
    IN  [k \in 1..(num_teams \div 2) |->
            Match(match_id_start + (k - 1), qualified_teams[k],
                  qualified_teams[num_teams - k + 1], stage, None)]

\* variant: the completed matches of every stage are read
RECURSIVE WinnerIds_of_any_stage(_, _, _)
WinnerIds_of_any_stage(ms, stage, i) ==
    IF i > Len(ms) THEN <<>>
    ELSE (IF ms[i].status = "completed" /\ ms[i].winner_id # NoId
          THEN <<ms[i].winner_id>> ELSE <<>>) \o WinnerIds_of_any_stage(ms, stage, i + 1)

\* winner ids of the completed matches of a stage with a winner, in list order
RECURSIVE WinnerIds(_, _, _)
WinnerIds(ms, stage, i) ==
    IF i > Len(ms) THEN <<>>
    ELSE (IF ms[i].stage = stage /\ ms[i].status = "completed" /\ ms[i].winner_id # NoId
          THEN <<ms[i].winner_id>> ELSE <<>>) \o WinnerIds(ms, stage, i + 1)

\* the qualifier list generate_semifinals and generate_final build
Winners(ts, ms, stage) == TeamsOfIds(ts, WinnerIds(ms, stage, 1), 1)

\* ------------------------------------------------------------ persistence
\* A results file is a record [exists, Teams, Fixtures, Standings].  A sheet is
\* a record [present, rows], a row is the record of its cells, and an empty
\* cell is read as NaN, on which int() raises: the number NaN in a column of
\* numbers, the string NaNText in a column of text.
Missing == [present |-> FALSE, rows |-> <<>>]
Sheet(rows) == [present |-> TRUE, rows |-> rows]
NaN == -2
NaNText == "nan"

\* the loop over the rows of a sheet: the objects built before the first row
\* whose id cell int() rejects, and whether every row was read
RECURSIVE LoadTeams(_, _, _)
LoadTeams(rows, i, acc) ==
    IF i > Len(rows) THEN [list |-> acc, ok |-> TRUE]
    ELSE IF rows[i].team_id = NaN THEN [list |-> acc, ok |-> FALSE]
    ELSE LoadTeams(rows, i + 1,
            Append(acc, Team(rows[i].team_id, rows[i].team_name, rows[i].group)))

RECURSIVE LoadMatches(_, _, _)
LoadMatches(rows, i, acc) ==
    IF i > Len(rows) THEN [list |-> acc, ok |-> TRUE]
    ELSE IF NaN \in {rows[i].match_id, rows[i].team1_id, rows[i].team2_id}
    THEN [list |-> acc, ok |-> FALSE]
    ELSE LoadMatches(rows, i + 1, Append(acc,
            [match_id |-> rows[i].match_id,
             team1_id |-> rows[i].team1_id, team1_name |-> rows[i].team1_name,
             team2_id |-> rows[i].team2_id, team2_name |-> rows[i].team2_name,
             stage |-> rows[i].stage,
             group |-> IF rows[i].group # NaNText THEN rows[i].group ELSE None,
             scheduled_time |-> IF rows[i].scheduled_time # NaN
                                THEN rows[i].scheduled_time ELSE NoTime,
             end_time |-> IF rows[i].end_time # NaN THEN rows[i].end_time ELSE NoTime,
             team1_score |-> IF rows[i].team1_score # NaN THEN rows[i].team1_score ELSE 0,
             team2_score |-> IF rows[i].team2_score # NaN THEN rows[i].team2_score ELSE 0,
             winner_id |-> IF rows[i].winner_id # NaN THEN rows[i].winner_id ELSE NoId,
             winner_name |-> IF rows[i].winner_name # NaNText
                             THEN rows[i].winner_name ELSE None,
             status |-> rows[i].status]))

RECURSIVE LoadStandings(_, _, _)
LoadStandings(rows, i, acc) ==
    IF i > Len(rows) THEN [list |-> acc, ok |-> TRUE]
    ELSE IF rows[i].team_id = NaN THEN [list |-> acc, ok |-> FALSE]
    ELSE LoadStandings(rows, i + 1, DictSet(acc, rows[i]))

\* what a cell written by DataFrame.to_excel reads back as: an empty text
\* cell for None, an empty numeric cell for a missing number
TextCell(v) == IF v = None THEN NaNText ELSE v
NumberCell(v, none) == IF v = none THEN NaN ELSE v

\* strftime("%Y-%m-%d %H:%M") read back by pd.to_datetime: the instant the
\* text names, which is the start of the minute
strftime(t) == t - (t % SecondsPerMinute)

\* Team.to_dict as a row of the Teams sheet
Team_to_dict(t) ==
    [team_id |-> t.team_id, team_name |-> t.team_name, group |-> TextCell(t.group)]

\* Match.to_dict as a row of the Fixtures sheet: "" for a time that is None
Match_to_dict(m) ==
    [match_id |-> m.match_id,
     team1_id |-> m.team1_id, team1_name |-> m.team1_name,
     team2_id |-> m.team2_id, team2_name |-> m.team2_name,
     stage |-> m.stage, group |-> TextCell(m.group),
     scheduled_time |-> IF m.scheduled_time # NoTime THEN strftime(m.scheduled_time)
                        ELSE NaN,
     end_time |-> IF m.end_time # NoTime THEN strftime(m.end_time) ELSE NaN,
     team1_score |-> m.team1_score, team2_score |-> m.team2_score,
     winner_id |-> NumberCell(m.winner_id, NoId),
     winner_name |-> TextCell(m.winner_name),
     status |-> m.status]

\* TeamStanding.to_dict as a row of the Standings sheet
TeamStanding_to_dict(st) == [st EXCEPT !.group = TextCell(st.group)]

\* sort_values(by=['group', 'points', 'score_difference', 'score_for'],
\* ascending=[True, False, False, False]): rows without a group last
ExportRank(row) ==
    IF row.group = NaNText THEN Len(group_names) + 1
    ELSE FirstIndex(group_names, row.group, 1)
ExportLess(a, b) ==
    LET da == a.score_for - a.score_against
        db == b.score_for - b.score_against
    IN  \/ ExportRank(a) < ExportRank(b)
        \/ ExportRank(a) = ExportRank(b) /\ a.points > b.points
        \/ ExportRank(a) = ExportRank(b) /\ a.points = b.points /\ da > db
        \/ /\ ExportRank(a) = ExportRank(b) /\ a.points = b.points /\ da = db
           /\ a.score_for > b.score_for

RECURSIVE ExportInsert(_, _, _)
ExportInsert(sorted, row, i) ==
    IF i > Len(sorted) THEN Append(sorted, row)
    ELSE IF ExportLess(row, sorted[i])
    THEN SubSeq(sorted, 1, i - 1) \o <<row>> \o SubSeq(sorted, i, Len(sorted))
    ELSE ExportInsert(sorted, row, i + 1)

RECURSIVE sort_values(_, _, _)
sort_values(rows, i, sorted) ==
    IF i > Len(rows) THEN sorted
    ELSE sort_values(rows, i + 1, ExportInsert(sorted, rows[i], 1))

\* to_dataframes written by save_to_excel: one sheet per DataFrame
to_dataframes(ts, ms, st) ==
    [exists |-> TRUE,
     Teams |-> Sheet([i \in 1..Len(ts) |-> Team_to_dict(ts[i])]),
     Fixtures |-> Sheet([i \in 1..Len(ms) |-> Match_to_dict(ms[i])]),
     Standings |-> Sheet(sort_values([i \in 1..Len(st) |-> TeamStanding_to_dict(st[i])],
                                     1, <<>>))]

NoWorkbook ==
    [exists |-> FALSE, Teams |-> Missing, Fixtures |-> Missing, Standings |-> Missing]

\* no schedule_matches call followed through its loop yet: the locals of the
\* call are sel (the matches argument), match_index and current_time
NoFrame ==
    [state |-> "idle", sel |-> <<>>, match_index |-> 0, current_time |-> NoTime,
     parallel_matches |-> 0]

\* ------------------------------------------------------------ the engine
\* __init__ followed by load_teams_from_dataframe on n rows: team_id = idx + 1
LoadedTeams(n) == [i \in 1..n |-> Team(i, TeamName(i), None)]

\* no generate_knockout_fixtures call is the last call
NoKnockout == [called |-> FALSE, qualified_teams |-> <<>>, stage |-> None, matches |-> <<>>]

\* no get_group_standings call is the last call
NoRanking == [called |-> FALSE, group |-> None, list |-> <<>>]

\* before any direct call: as after a call on no teams
NoCall == [teams |-> <<>>, match_id_start |-> 1, matches |-> <<>>]

Init ==
    /\ teams = LoadedTeams(NumTeams)
    /\ matches = <<>>
    /\ standings = <<>>
    /\ NUMBER_OF_GROUPS = 2
    /\ groups = <<>>
    /\ returned = NoCall
    /\ error = None
    /\ load_result = None
    /\ knockout = NoKnockout
    /\ ranking = NoRanking
    /\ calls = 0
    /\ edits = 0
    /\ frame = NoFrame
    /\ workbook = NoWorkbook

DivideIntoGroups(shuffle, perm) ==
    LET teams_copy == IF shuffle THEN Shuffled(teams, perm) ELSE teams
        res == DivideLoop(teams_copy, 0, teams, <<>>, NUMBER_OF_GROUPS)
    IN  /\ teams' = res.teams
        /\ groups' = res.groups
        /\ standings' = InitStandings(standings, res.teams, 1)
        /\ error' = None
        /\ UNCHANGED workbook
        /\ UNCHANGED frame
        /\ load_result' = None
        /\ ranking' = NoRanking
        /\ knockout' = NoKnockout
        /\ UNCHANGED <<matches, NUMBER_OF_GROUPS, returned, edits>>

\* a direct call of generate_round_robin_fixtures on the teams with these ids
GenerateRoundRobinFixtures(ids, match_id_start) ==
    /\ returned' = [teams |-> ids, match_id_start |-> match_id_start,
                    matches |-> generate_round_robin_fixtures(
                                    TeamsOf(teams, ids), "group", match_id_start)]
    /\ error' = None
    /\ UNCHANGED workbook
    /\ UNCHANGED frame
    /\ load_result' = None
    /\ ranking' = NoRanking
    /\ knockout' = NoKnockout
    /\ UNCHANGED <<teams, matches, standings, NUMBER_OF_GROUPS, groups, edits>>

GenerateGroupStageFixtures ==
    /\ matches' = generate_group_stage_fixtures(groups)
    /\ error' = None
    /\ UNCHANGED workbook
    /\ UNCHANGED frame
    /\ load_result' = None
    /\ ranking' = NoRanking
    /\ knockout' = NoKnockout
    /\ UNCHANGED <<teams, standings, NUMBER_OF_GROUPS, groups, returned, edits>>

\* schedule_matches that ignores its matches argument and always walks
\* self.matches
ScheduleMatches_whole_list(start_time, which, parallel_matches) ==
    /\ parallel_matches >= 1
    /\ matches' = schedule_matches(matches, start_time, AllPositions(matches),
                                   parallel_matches)
    /\ error' = None
    /\ UNCHANGED workbook
    /\ UNCHANGED frame
    /\ load_result' = None
    /\ ranking' = NoRanking
    /\ knockout' = NoKnockout
    /\ UNCHANGED <<teams, standings, NUMBER_OF_GROUPS, groups, returned, edits>>

ScheduleMatches(start_time, which, parallel_matches) ==
    LET sel == IF which = "all" THEN AllPositions(matches)
               ELSE get_matches_by_stage(matches, which)
    IN  /\ parallel_matches >= 1
        /\ matches' = schedule_matches(matches, start_time, sel, parallel_matches)
        /\ error' = None
        /\ UNCHANGED workbook
        /\ UNCHANGED frame
        /\ load_result' = None
        /\ ranking' = NoRanking
        /\ knockout' = NoKnockout
        /\ UNCHANGED <<teams, standings, NUMBER_OF_GROUPS, groups, returned, edits>>

UpdateMatchResult(match_id, team1_score, team2_score, winner_id) ==
    LET i == MatchIndex(matches, match_id)
    IN  IF i = 0
        THEN /\ error' = "ValueError"
             /\ UNCHANGED workbook
             /\ UNCHANGED frame
             /\ load_result' = None
             /\ ranking' = NoRanking
             /\ knockout' = NoKnockout
             /\ UNCHANGED <<teams, matches, standings, NUMBER_OF_GROUPS, groups,
                            returned, edits>>
        ELSE /\ matches' = SetResult(matches, i, team1_score, team2_score, winner_id)
             /\ standings' = recalculate_all_standings(teams, matches', standings)
             /\ error' = None
             /\ UNCHANGED workbook
             /\ UNCHANGED frame
             /\ load_result' = None
             /\ ranking' = NoRanking
             /\ knockout' = NoKnockout
             /\ edits' = IF matches[i].status = "completed" THEN edits + 1 ELSE edits
             /\ UNCHANGED <<teams, NUMBER_OF_GROUPS, groups, returned>>

\* variant: self.matches = matches instead of self.matches.extend(matches)
Knockout_replacing(qualified_teams, stage) ==
    LET new == generate_knockout_fixtures(matches, qualified_teams, stage)
    IN  /\ matches' = new
        /\ error' = None
        /\ UNCHANGED workbook
        /\ UNCHANGED frame
        /\ load_result' = None
        /\ ranking' = NoRanking
        /\ knockout' = [called |-> TRUE, qualified_teams |-> qualified_teams,
                        stage |-> stage, matches |-> new]
        /\ UNCHANGED <<teams, standings, NUMBER_OF_GROUPS, groups, returned, edits>>

Knockout(qualified_teams, stage) ==
    LET new == generate_knockout_fixtures(matches, qualified_teams, stage)
    IN  /\ matches' = matches \o new
        /\ error' = None
        /\ UNCHANGED workbook
        /\ UNCHANGED frame
        /\ load_result' = None
        /\ ranking' = NoRanking
        /\ knockout' = [called |-> TRUE, qualified_teams |-> qualified_teams,
                        stage |-> stage, matches |-> new]
        /\ UNCHANGED <<teams, standings, NUMBER_OF_GROUPS, groups, returned, edits>>

GenerateQuarterfinals ==
    Knockout(Qualified(teams, standings, NUMBER_OF_GROUPS), "quarterfinal")

GenerateSemifinals ==
    Knockout(Winners(teams, matches, "quarterfinal"), "semifinal")

GenerateFinal ==
    Knockout(Winners(teams, matches, "semifinal"), "final")

\* get_group_standings(group): reads the standings, changes nothing
GetGroupStandings(group) ==
    /\ ranking' = [called |-> TRUE, group |-> group,
                   list |-> get_group_standings(standings, group)]
    /\ error' = None
    /\ UNCHANGED workbook
    /\ UNCHANGED frame
    /\ load_result' = None
    /\ knockout' = NoKnockout
    /\ UNCHANGED <<teams, matches, standings, NUMBER_OF_GROUPS, groups, returned, edits>>

\* load_from_excel(file_path): each list is replaced as soon as its sheet is
\* read, and any exception ends the load with False
LoadFromExcel(file) ==
    /\ error' = None
    /\ UNCHANGED frame
    /\ UNCHANGED workbook
    /\ knockout' = NoKnockout
    /\ ranking' = NoRanking
    /\ UNCHANGED <<NUMBER_OF_GROUPS, groups, returned, edits>>
    /\ IF ~file.exists \/ ~file.Teams.present
       THEN /\ load_result' = "False"
            /\ UNCHANGED <<teams, matches, standings>>
       ELSE LET t == LoadTeams(file.Teams.rows, 1, <<>>)
            IN  /\ teams' = t.list
                /\ IF ~t.ok \/ ~file.Fixtures.present
                   THEN /\ load_result' = "False"
                        /\ UNCHANGED <<matches, standings>>
                   ELSE LET m == LoadMatches(file.Fixtures.rows, 1, <<>>)
                        IN  /\ matches' = m.list
                            /\ IF ~m.ok \/ ~file.Standings.present
                               THEN /\ load_result' = "False"
                                    /\ UNCHANGED standings
                               ELSE LET st == LoadStandings(file.Standings.rows, 1, <<>>)
                                    IN  /\ standings' = st.list
                                        /\ load_result' = IF st.ok THEN "True"
                                                          ELSE "False"

\* save_to_excel(file_path): to_dataframes raises KeyError in sort_values when
\* there are no standings, before the file is opened
SaveToExcel ==
    /\ IF standings = <<>>
       THEN /\ error' = "KeyError"
            /\ UNCHANGED workbook
       ELSE /\ error' = None
            /\ workbook' = to_dataframes(teams, matches, standings)
    /\ UNCHANGED frame
    /\ load_result' = None
    /\ knockout' = NoKnockout
    /\ ranking' = NoRanking
    /\ UNCHANGED <<teams, matches, standings, NUMBER_OF_GROUPS, groups, returned, edits>>

\* schedule_matches one iteration of its while loop at a time
\* datetime.max, counted in match durations from the hour the clock starts at
MaxDateTime == MaxClockBatches * Duration

\* the call: matches = self.matches if None, current_time = start_time,
\* match_index = 0; parallel_matches is taken as it comes
ScheduleCall(start_time, which, parallel_matches) ==
    /\ frame.state # "running"
    /\ frame' = [state |-> "running",
                 sel |-> IF which = "all" THEN AllPositions(matches)
                         ELSE get_matches_by_stage(matches, which),
                 match_index |-> 0, current_time |-> start_time,
                 parallel_matches |-> parallel_matches]
    /\ error' = None
    /\ UNCHANGED workbook
    /\ load_result' = None
    /\ ranking' = NoRanking
    /\ knockout' = NoKnockout
    /\ UNCHANGED <<teams, matches, standings, NUMBER_OF_GROUPS, groups, returned, edits>>

\* one test of `while match_index < len(matches)`, no new call: the return, or the for loop
\* and the advance of current_time; a datetime past datetime.max raises
\* OverflowError, in the for loop after scheduled_time of the match at hand
\* is set, or at the advance when the for loop assigned nothing
ScheduleStep ==
    /\ frame.state = "running"
    /\ UNCHANGED <<teams, standings, NUMBER_OF_GROUPS, groups, returned, edits,
                   workbook, load_result, ranking, knockout, calls>>
    /\ IF frame.match_index >= Len(frame.sel)
       THEN /\ frame' = [frame EXCEPT !.state = "returned"]
            /\ UNCHANGED <<matches, error>>
       ELSE IF frame.current_time + Duration > MaxDateTime
       THEN /\ frame' = [frame EXCEPT !.state = "raised"]
            /\ error' = "OverflowError"
            /\ matches' = IF frame.parallel_matches >= 1
                          THEN [matches EXCEPT ![frame.sel[frame.match_index + 1]]
                                    .scheduled_time = frame.current_time]
                          ELSE matches
       ELSE LET slot == ScheduleSlot(matches, frame.sel, frame.match_index,
                                     frame.current_time, frame.parallel_matches)
            IN  /\ matches' = slot.matches
                /\ frame' = [frame EXCEPT !.match_index = slot.match_index,
                                          !.current_time = @ + Duration]
                /\ UNCHANGED error

\* ------------------------------------------------------------ inputs
Scores == 0..MaxScore
StartTimes == {0}
Selections == {"all"}
\* winner_id as the caller gives it: None, or the id of a team
WinnerInputs == {NoId} \cup (1..NumTeams)
MatchIdInputs == 1..(MaxMatches + 1)

\* the rows of the sheets of a results file: n well-formed rows, or fewer
\* followed by a row whose id cell is empty
TeamRow(i) == [team_id |-> i, team_name |-> TeamName(i), group |-> "A"]
FixtureRow(i) ==
    [match_id |-> i, team1_id |-> 1, team1_name |-> TeamName(1),
     team2_id |-> 2, team2_name |-> TeamName(2), stage |-> "group", group |-> "A",
     scheduled_time |-> NaN, end_time |-> NaN, team1_score |-> 0, team2_score |-> 0,
     winner_id |-> NaN, winner_name |-> NaNText, status |-> "scheduled"]
StandingRow(i) == TeamStanding(i, TeamName(i), "A")
\* a sheet is absent, or holds the first n good rows, or fewer good rows
\* followed by a bad one
SheetsOf(good, bad) ==
    {Missing}
    \cup {Sheet(SubSeq(good, 1, n)) : n \in 0..MaxRows}
    \cup {Sheet(Append(SubSeq(good, 1, n - 1), bad[n])) : n \in 1..MaxRows}
TeamSheets ==
    SheetsOf([i \in 1..MaxRows |-> TeamRow(i)],
             [i \in 1..MaxRows |-> [TeamRow(i) EXCEPT !.team_id = NaN]])
FixtureSheets ==
    SheetsOf([i \in 1..MaxRows |-> FixtureRow(i)],
             [i \in 1..MaxRows |-> [FixtureRow(i) EXCEPT !.match_id = NaN]])
StandingSheets ==
    SheetsOf([i \in 1..MaxRows |-> StandingRow(i)],
             [i \in 1..MaxRows |-> [StandingRow(i) EXCEPT !.team_id = NaN]])
Files ==
    {[exists |-> FALSE, Teams |-> Missing, Fixtures |-> Missing, Standings |-> Missing]}
    \cup [exists : {TRUE}, Teams : TeamSheets, Fixtures : FixtureSheets,
          Standings : StandingSheets]

\* a results file written earlier and edited since: every sheet is well
\* formed, and the fixture rows carry the match ids of the list ids
RestoredIdLists == UNION {[1..n -> 1..MaxRestoredId] : n \in 0..MaxRows}
RestoredFile(ids) ==
    [exists |-> TRUE,
     Teams |-> Sheet([i \in 1..MaxRestoredTeams |-> TeamRow(i)]),
     Fixtures |-> Sheet([k \in 1..Len(ids) |-> FixtureRow(ids[k])]),
     Standings |-> Sheet([i \in 1..MaxRestoredTeams |-> StandingRow(i)])]

\* a results file whose Standings sheet has up to MaxRankedRows rows, in the
\* groups an unshuffled division into two gives them, with the points of a
\* loss or of a win and any tiebreaker scores up to MaxRankKey
RankKeys ==
    [points : {POINTS_PER_LOSS, POINTS_PER_WIN},
     tiebreaker_score_for : 0..MaxRankKey, tiebreaker_score_against : 0..MaxRankKey]
RankedGroup(i) == group_names[group_idx(i - 1, 2) + 1]
RankedRow(i, k) ==
    [StandingRow(i) EXCEPT !.group = RankedGroup(i), !.points = k.points,
                           !.tiebreaker_score_for = k.tiebreaker_score_for,
                           !.tiebreaker_score_against = k.tiebreaker_score_against]
RankedFile(keys) ==
    [exists |-> TRUE,
     Teams |-> Sheet([i \in 1..Len(keys) |-> [TeamRow(i) EXCEPT !.group = RankedGroup(i)]]),
     Fixtures |-> Sheet(<<>>),
     Standings |-> Sheet([i \in 1..Len(keys) |-> RankedRow(i, keys[i])])]
\* group as the caller gives it: None for all teams, or a label
GroupInputs == {None, "A", "B"}

\* ------------------------------------------------------------ specifications
\* one more call is made, of at most MaxCalls
Counted == calls < MaxCalls /\ calls' = calls + 1
CountedUpTo(max_calls) == calls < max_calls /\ calls' = calls + 1

\* any sequence of calls of the group stage and the first knockout round on a
\* freshly loaded team list
Next ==
    \/ Counted /\ \E perm \in Permutations(1..Len(teams)) : DivideIntoGroups(TRUE, perm)
    \/ Counted /\ DivideIntoGroups(FALSE, <<>>)
    \/ Counted /\ GenerateGroupStageFixtures
    \/ Counted /\ \E t \in StartTimes, which \in Selections, p \in 1..MaxParallel :
            ScheduleMatches(t, which, p)
    \/ Counted /\ \E m \in MatchIdInputs, s1 \in Scores, s2 \in Scores, w \in WinnerInputs :
            UpdateMatchResult(m, s1, s2, w)
    \/ Counted /\ Len(matches) < MaxMatches /\ GenerateQuarterfinals

Spec == Init /\ [][Next]_vars

\* a loaded list of 0..MaxGroupTeams teams, with either number of groups
InitGroups ==
    /\ \E n \in 0..MaxGroupTeams : teams = LoadedTeams(n)
    /\ matches = <<>>
    /\ standings = <<>>
    /\ NUMBER_OF_GROUPS \in GroupOptions
    /\ groups = <<>>
    /\ returned = NoCall
    /\ error = None
    /\ load_result = None
    /\ knockout = NoKnockout
    /\ ranking = NoRanking
    /\ calls = 0
    /\ edits = 0
    /\ frame = NoFrame
    /\ workbook = NoWorkbook

\* the group stage: the draw (a shuffled division) as the first call or not at
\* all, then any sequence of unshuffled divisions, group fixture generations
\* and results that name team1 the winner
CountedGroups == calls < MaxGroupCalls /\ calls' = calls + 1

NextGroups ==
    \/ CountedGroups /\ calls = 0 /\ \E perm \in Permutations(1..Len(teams)) :
            DivideIntoGroups(TRUE, perm)
    \/ CountedGroups /\ DivideIntoGroups(FALSE, <<>>)
    \/ CountedGroups /\ GenerateGroupStageFixtures
    \/ CountedGroups /\ \E m \in 1..Len(matches), w \in 1..Len(teams) :
            /\ w = matches[m].team1_id
            /\ UpdateMatchResult(matches[m].match_id, MaxScore, 0, w)

SpecGroups == InitGroups /\ [][NextGroups]_vars

\* divisions only, first and repeated
CountedDivide == calls < MaxDivideCalls /\ calls' = calls + 1

NextDivide ==
    \/ CountedDivide /\ \E perm \in Permutations(1..Len(teams)) :
            DivideIntoGroups(TRUE, perm)
    \/ CountedDivide /\ DivideIntoGroups(FALSE, <<>>)

SpecDivide == InitGroups /\ [][NextDivide]_vars

\* the lists of distinct team ids: the team lists a caller can pass
DistinctLists(n) ==
    {ids \in UNION {[1..k -> 1..n] : k \in 0..n} :
        \A i \in 1..Len(ids) : \A j \in 1..Len(ids) : ids[i] = ids[j] => i = j}

\* direct calls of generate_round_robin_fixtures on lists of distinct teams, any
\* number of them: the call reads its arguments only
InitRoundRobin ==
    /\ \E n \in 0..MaxRoundRobinTeams : teams = LoadedTeams(n)
    /\ matches = <<>>
    /\ standings = <<>>
    /\ NUMBER_OF_GROUPS = 2
    /\ groups = <<>>
    /\ returned = NoCall
    /\ error = None
    /\ load_result = None
    /\ knockout = NoKnockout
    /\ ranking = NoRanking
    /\ calls = 0
    /\ edits = 0
    /\ frame = NoFrame
    /\ workbook = NoWorkbook

NextRoundRobin ==
    \E ids \in DistinctLists(Len(teams)), start \in 1..MaxStartId :
        GenerateRoundRobinFixtures(ids, start) /\ UNCHANGED calls

SpecRoundRobin == InitRoundRobin /\ [][NextRoundRobin]_vars

\* an engine in use (teams divided, fixtures generated, results recorded) on
\* which load_from_excel is called with any results file
CountedLoad == calls < MaxLoadCalls /\ calls' = calls + 1

NextLoad ==
    \/ CountedLoad /\ DivideIntoGroups(FALSE, <<>>)
    \/ CountedLoad /\ GenerateGroupStageFixtures
    \/ CountedLoad /\ \E m \in 1..Len(matches), s1 \in Scores, w \in WinnerInputs :
            UpdateMatchResult(m, s1, 0, w)
    \/ CountedLoad /\ \E file \in Files : LoadFromExcel(file)

SpecLoad == Init /\ [][NextLoad]_vars

\* the knockout rounds in any order and any number of times, between group
\* fixture generations and results that name team1 the winner
CountedKnockout == calls < MaxKnockoutCalls /\ calls' = calls + 1

NextKnockout ==
    \/ CountedKnockout /\ DivideIntoGroups(FALSE, <<>>)
    \/ CountedKnockout /\ GenerateGroupStageFixtures
    \/ CountedKnockout /\ \E m \in 1..MaxKnockoutMatches, w \in 1..NumTeams :
            /\ MatchIndex(matches, m) # 0
            /\ w = matches[MatchIndex(matches, m)].team1_id
            /\ UpdateMatchResult(m, MaxScore, 0, w)
    \/ CountedKnockout /\ Len(matches) < MaxKnockoutMatches /\ GenerateQuarterfinals
    \/ CountedKnockout /\ Len(matches) < MaxKnockoutMatches /\ GenerateSemifinals
    \/ CountedKnockout /\ Len(matches) < MaxKnockoutMatches /\ GenerateFinal

SpecKnockout == Init /\ [][NextKnockout]_vars

\* direct calls of generate_knockout_fixtures on lists of distinct teams, for
\* any stage
KnockoutStages == {"quarterfinal", "semifinal", "final"}

InitPairing ==
    /\ \E n \in 0..MaxQualifiers : teams = LoadedTeams(n)
    /\ matches = <<>>
    /\ standings = <<>>
    /\ NUMBER_OF_GROUPS = 2
    /\ groups = <<>>
    /\ returned = NoCall
    /\ error = None
    /\ load_result = None
    /\ knockout = NoKnockout
    /\ ranking = NoRanking
    /\ calls = 0
    /\ edits = 0
    /\ frame = NoFrame
    /\ workbook = NoWorkbook

NextPairing ==
    /\ Len(matches) < MaxPairingMatches
    /\ \E ids \in DistinctLists(Len(teams)), stage \in KnockoutStages :
            Knockout(TeamsOf(teams, ids), stage)
    /\ UNCHANGED calls

SpecPairing == InitPairing /\ [][NextPairing]_vars

\* the draw that reverses the team list
Reversed(n) == [i \in 1..n |-> n + 1 - i]

\* the completed matches of a list
Completed(ms) == {i \in 1..Len(ms) : ms[i].status = "completed"}

\* a group stage that ends in the quarterfinals: one division (the list as
\* loaded, or reversed by the draw), the group fixtures, up to
\* MaxQualifyResults results entered down the list, then generate_quarterfinals
InitQualify ==
    /\ \E n \in 0..MaxQualifyTeams : teams = LoadedTeams(n)
    /\ matches = <<>>
    /\ standings = <<>>
    /\ NUMBER_OF_GROUPS \in GroupOptions
    /\ groups = <<>>
    /\ returned = NoCall
    /\ error = None
    /\ load_result = None
    /\ knockout = NoKnockout
    /\ ranking = NoRanking
    /\ calls = 0
    /\ edits = 0
    /\ frame = NoFrame
    /\ workbook = NoWorkbook

NextQualify ==
    /\ ~knockout.called
    /\ UNCHANGED calls
    /\ \/ groups = <<>> /\ DivideIntoGroups(FALSE, <<>>)
       \/ groups = <<>> /\ DivideIntoGroups(TRUE, Reversed(Len(teams)))
       \/ groups # <<>> /\ matches = <<>> /\ GenerateGroupStageFixtures
       \/ /\ Cardinality(Completed(matches)) < MaxQualifyResults
          /\ \E m \in 1..Len(matches), s1 \in {0, MaxScore} :
                /\ \A i \in Completed(matches) : i < m
                /\ \E w \in {matches[m].team1_id, matches[m].team2_id, NoId} :
                        UpdateMatchResult(matches[m].match_id, s1, 0, w)
       \/ GenerateQuarterfinals

SpecQualify == InitQualify /\ [][NextQualify]_vars

\* the matches of a list that are drawn: completed without a winner
Drawn(ms) == {i \in Completed(ms) : ms[i].winner_id = NoId}

\* a whole group stage of as many teams as qualify, in two groups: the
\* division, the group fixtures, a result for every match down the list (a
\* win of either team, or one of at most MaxDraws draws), then the
\* quarterfinals
InitTournament ==
    /\ teams = LoadedTeams(TOTAL_QUALIFIERS_FOR_KNOCKOUT)
    /\ matches = <<>>
    /\ standings = <<>>
    /\ NUMBER_OF_GROUPS = 2
    /\ groups = <<>>
    /\ returned = NoCall
    /\ error = None
    /\ load_result = None
    /\ knockout = NoKnockout
    /\ ranking = NoRanking
    /\ calls = 0
    /\ edits = 0
    /\ frame = NoFrame
    /\ workbook = NoWorkbook

NextTournament ==
    /\ ~knockout.called
    /\ UNCHANGED calls
    /\ \/ groups = <<>> /\ DivideIntoGroups(FALSE, <<>>)
       \/ groups # <<>> /\ matches = <<>> /\ GenerateGroupStageFixtures
       \/ \E m \in 1..Len(matches) :
            /\ Completed(matches) = 1..(m - 1)
            /\ \/ UpdateMatchResult(matches[m].match_id, MaxScore, 0, matches[m].team1_id)
               \/ UpdateMatchResult(matches[m].match_id, 0, MaxScore, matches[m].team2_id)
               \/ /\ Cardinality(Drawn(matches)) < MaxDraws
                  /\ UpdateMatchResult(matches[m].match_id, 0, 0, NoId)
       \/ /\ matches # <<>>
          /\ Completed(matches) = 1..Len(matches)
          /\ GenerateQuarterfinals

SpecTournament == InitTournament /\ [][NextTournament]_vars

\* the knockout rounds in any order and any number of times, between group
\* fixture generations and results that name team1 the winner or are drawn
CountedWinners == calls < MaxWinnersCalls /\ calls' = calls + 1

NextWinners ==
    \/ CountedWinners /\ DivideIntoGroups(FALSE, <<>>)
    \/ CountedWinners /\ GenerateGroupStageFixtures
    \/ CountedWinners /\ \E m \in 1..Len(matches) :
            \E w \in {matches[m].team1_id, NoId} :
                UpdateMatchResult(matches[m].match_id, MaxScore, 0, w)
    \/ CountedWinners /\ Len(matches) < MaxKnockoutMatches /\ GenerateQuarterfinals
    \/ CountedWinners /\ Len(matches) < MaxKnockoutMatches /\ GenerateSemifinals
    \/ CountedWinners /\ Len(matches) < MaxKnockoutMatches /\ GenerateFinal

SpecWinners == Init /\ [][NextWinners]_vars

\* get_group_standings on the standings of a loaded results file
NextRanking ==
    \/ calls = 0 /\ calls' = 1 /\ \E n \in 0..MaxRankedRows :
            \E keys \in [1..n -> RankKeys] : LoadFromExcel(RankedFile(keys))
    \/ UNCHANGED calls /\ \E group \in GroupInputs : GetGroupStandings(group)

SpecRanking == Init /\ [][NextRanking]_vars

\* start_time on the hour or a minute past it; the whole list or one stage
ScheduleStarts == {0, SecondsPerMinute}
ScheduleSelections == {"all", "group", "quarterfinal"}

\* schedule_matches on the whole list or on the matches of one stage, after
\* any of division, group fixtures and quarterfinals
InitSchedule ==
    /\ \E n \in 0..MaxScheduleTeams : teams = LoadedTeams(n)
    /\ matches = <<>>
    /\ standings = <<>>
    /\ NUMBER_OF_GROUPS = 2
    /\ groups = <<>>
    /\ returned = NoCall
    /\ error = None
    /\ load_result = None
    /\ knockout = NoKnockout
    /\ ranking = NoRanking
    /\ calls = 0
    /\ edits = 0
    /\ frame = NoFrame
    /\ workbook = NoWorkbook

CountedSchedule == calls < MaxScheduleCalls /\ calls' = calls + 1

NextSchedule ==
    \/ CountedSchedule /\ groups = <<>> /\ DivideIntoGroups(FALSE, <<>>)
    \/ CountedSchedule /\ matches = <<>> /\ GenerateGroupStageFixtures
    \/ CountedSchedule /\ ~knockout.called /\ GenerateQuarterfinals
    \/ CountedSchedule /\ \E t \in ScheduleStarts, which \in ScheduleSelections,
                              p \in 1..MaxScheduleParallel : ScheduleMatches(t, which, p)

SpecSchedule == InitSchedule /\ [][NextSchedule]_vars

\* a tournament restored from a results file, on which results are recorded
\* (team1 the winner) and the knockout rounds are generated
CountedRestore == calls < MaxRestoreCalls /\ calls' = calls + 1

NextRestore ==
    \/ CountedRestore /\ \E ids \in RestoredIdLists : LoadFromExcel(RestoredFile(ids))
    \/ CountedRestore /\ \E m \in 1..Len(matches) :
            UpdateMatchResult(matches[m].match_id, MaxScore, 0, matches[m].team1_id)
    \/ CountedRestore /\ GenerateQuarterfinals
    \/ CountedRestore /\ GenerateSemifinals
    \/ CountedRestore /\ GenerateFinal

SpecRestore == Init /\ [][NextRestore]_vars

\* a tournament is set up, scheduled from the hour or from half a minute past
\* it, played, saved with save_to_excel and loaded from the saved workbook
RoundTripStarts == {0, SecondsPerMinute \div 2}

InitRoundTrip ==
    /\ \E n \in 0..MaxRoundTripTeams : teams = LoadedTeams(n)
    /\ matches = <<>>
    /\ standings = <<>>
    /\ NUMBER_OF_GROUPS = 2
    /\ groups = <<>>
    /\ returned = NoCall
    /\ error = None
    /\ load_result = None
    /\ knockout = NoKnockout
    /\ ranking = NoRanking
    /\ calls = 0
    /\ edits = 0
    /\ frame = NoFrame
    /\ workbook = NoWorkbook

NextRoundTrip ==
    \/ CountedUpTo(MaxRoundTripCalls) /\ groups = <<>> /\ DivideIntoGroups(FALSE, <<>>)
    \/ CountedUpTo(MaxRoundTripCalls) /\ matches = <<>> /\ GenerateGroupStageFixtures
    \/ CountedUpTo(MaxRoundTripCalls) /\ \E t \in RoundTripStarts, p \in 1..MaxParallel :
            ScheduleMatches(t, "all", p)
    \/ CountedUpTo(MaxRoundTripCalls) /\ \E m \in 1..Len(matches) : \E w \in {NoId, matches[m].team1_id} :
            UpdateMatchResult(matches[m].match_id, MaxScore, 0, w)
    \/ CountedUpTo(MaxRoundTripCalls) /\ SaveToExcel
    \/ CountedUpTo(MaxRoundTripCalls) /\ workbook.exists /\ LoadFromExcel(workbook)

SpecRoundTrip == InitRoundTrip /\ [][NextRoundTrip]_vars

\* one division, the group fixtures, the quarterfinals once, and any results
\* on the generated matches: a score for either side, and as winner_id None or
\* the id of any team, first results and corrections alike
InitAccounting ==
    /\ \E n \in 0..MaxAccountTeams : teams = LoadedTeams(n)
    /\ matches = <<>>
    /\ standings = <<>>
    /\ NUMBER_OF_GROUPS = 2
    /\ groups = <<>>
    /\ returned = NoCall
    /\ error = None
    /\ load_result = None
    /\ knockout = NoKnockout
    /\ ranking = NoRanking
    /\ calls = 0
    /\ edits = 0
    /\ frame = NoFrame
    /\ workbook = NoWorkbook

NextAccounting ==
    \/ CountedUpTo(MaxAccountCalls) /\ groups = <<>> /\ DivideIntoGroups(FALSE, <<>>)
    \/ CountedUpTo(MaxAccountCalls) /\ groups # <<>> /\ matches = <<>> /\ GenerateGroupStageFixtures
    \/ CountedUpTo(MaxAccountCalls) /\ matches # <<>> /\ get_matches_by_stage(matches, "quarterfinal") = <<>>
            /\ GenerateQuarterfinals
    \/ CountedUpTo(MaxAccountCalls) /\ \E m \in 1..Len(matches), s1 \in {0, MaxScore},
                                 w \in {NoId} \cup Range(Ids(teams)) :
            UpdateMatchResult(matches[m].match_id, s1, MaxScore - s1, w)

SpecAccounting == InitAccounting /\ [][NextAccounting]_vars

\* the knockout bracket of eight teams: the division, the quarterfinals, then
\* each stage played down the list with wins and draws, completed matches
\* corrected up to MaxBracketEdits times, and the next stage generated once
\* when every match of the stage before is completed
NextBracket ==
    /\ UNCHANGED calls
    /\ \/ groups = <<>> /\ DivideIntoGroups(FALSE, <<>>)
       \/ groups # <<>> /\ matches = <<>> /\ GenerateQuarterfinals
       \/ \E m \in 1..Len(matches) :
            /\ Completed(matches) = 1..(m - 1)
            /\ \/ UpdateMatchResult(matches[m].match_id, MaxScore, 0, matches[m].team1_id)
               \/ UpdateMatchResult(matches[m].match_id, 0, MaxScore, matches[m].team2_id)
               \/ UpdateMatchResult(matches[m].match_id, 0, 0, NoId)
       \/ \E m \in Completed(matches) :
            /\ edits < MaxBracketEdits
            /\ \/ UpdateMatchResult(matches[m].match_id, MaxScore, 0, matches[m].team1_id)
               \/ UpdateMatchResult(matches[m].match_id, 0, MaxScore, matches[m].team2_id)
               \/ UpdateMatchResult(matches[m].match_id, 0, 0, NoId)
       \/ /\ matches # <<>>
          /\ Completed(matches) = 1..Len(matches)
          /\ get_matches_by_stage(matches, "semifinal") = <<>>
          /\ GenerateSemifinals
       \/ /\ get_matches_by_stage(matches, "semifinal") # <<>>
          /\ Completed(matches) = 1..Len(matches)
          /\ get_matches_by_stage(matches, "final") = <<>>
          /\ GenerateFinal

SpecBracket == InitTournament /\ [][NextBracket]_vars

\* schedule_matches followed through its loop, on the group fixtures of a
\* divided engine, with parallel_matches from -MaxNonPositive to MaxParallel
InitScheduleLoop ==
    /\ \E n \in 0..MaxLoopTeams : teams = LoadedTeams(n)
    /\ matches = <<>>
    /\ standings = <<>>
    /\ NUMBER_OF_GROUPS = 2
    /\ groups = <<>>
    /\ returned = NoCall
    /\ error = None
    /\ load_result = None
    /\ knockout = NoKnockout
    /\ ranking = NoRanking
    /\ calls = 0
    /\ edits = 0
    /\ workbook = NoWorkbook
    /\ frame = NoFrame

NextScheduleLoop ==
    \/ CountedUpTo(MaxLoopCalls) /\ frame.state # "running" /\ groups = <<>>
            /\ DivideIntoGroups(FALSE, <<>>)
    \/ CountedUpTo(MaxLoopCalls) /\ frame.state # "running" /\ groups # <<>> /\ matches = <<>>
            /\ GenerateGroupStageFixtures
    \/ CountedUpTo(MaxLoopCalls) /\ \E p \in (0 - MaxNonPositive)..MaxParallel : ScheduleCall(0, "all", p)
    \/ ScheduleStep

SpecScheduleLoop == InitScheduleLoop /\ [][NextScheduleLoop]_vars

\* a call that has begun keeps running: the engine is single-threaded and no
\* operation suspends
FairScheduleLoop == SpecScheduleLoop /\ WF_vars(ScheduleStep)

\* ------------------------------------------------ presentation layer (app.py)
\* save_tournament(): save_to_excel, with any exception shown and dropped
save_tournament(ts, ms, st, wb) == IF st = <<>> THEN wb ELSE to_dataframes(ts, ms, st)

\* all(m.status == "completed" for m in matches) and matches
StageComplete(ms, stage) ==
    LET sel == get_matches_by_stage(ms, stage)
    IN  /\ sel # <<>>
        /\ \A k \in 1..Len(sel) : ms[sel[k]].status = "completed"

\* max(matches, key=lambda m: m.end_time if m.end_time else datetime.min).end_time
RECURSIVE LastEndTime(_, _, _, _)
LastEndTime(ms, sel, k, best) ==
    IF k > Len(sel) THEN best
    ELSE LastEndTime(ms, sel, k + 1,
            IF ms[sel[k]].end_time > best THEN ms[sel[k]].end_time ELSE best)

\* last_match.end_time + timedelta(minutes=30) if last_match.end_time else
\* datetime.now(), the clock read as the hour the tournament started
StageStart(ms, stage) ==
    LET last == LastEndTime(ms, get_matches_by_stage(ms, stage), 1, NoTime)
    IN  IF last = NoTime THEN 0 ELSE last + 30 * SecondsPerMinute

\* the "Update Match Result" button of a listed match: update_match_result
\* with the winner picked from Draw, team1 and team2, then save_tournament
AppUpdateMatchResult(i, team1_score, team2_score, winner_id) ==
    /\ i \in 1..Len(matches)
    /\ winner_id \in {NoId, matches[i].team1_id, matches[i].team2_id}
    /\ matches' = SetResult(matches, i, team1_score, team2_score, winner_id)
    /\ standings' = recalculate_all_standings(teams, matches', standings)
    /\ workbook' = save_tournament(teams, matches', standings', workbook)
    /\ edits' = IF matches[i].status = "completed" THEN edits + 1 ELSE edits
    /\ error' = None
    /\ UNCHANGED frame
    /\ load_result' = None
    /\ ranking' = NoRanking
    /\ knockout' = NoKnockout
    /\ UNCHANGED <<teams, NUMBER_OF_GROUPS, groups, returned>>

\* the "Generate ..." button: the engine's generator, then schedule_matches on
\* the matches of the new stage with parallel_matches left at 1, then
\* save_tournament
AppGenerate(previous, stage, qualified_teams) ==
    LET new == generate_knockout_fixtures(matches, qualified_teams, stage)
        all == matches \o new
    IN  /\ StageComplete(matches, previous)
        /\ matches' = schedule_matches(all, StageStart(matches, previous),
                                       get_matches_by_stage(all, stage), 1)
        /\ workbook' = save_tournament(teams, matches', standings, workbook)
        /\ knockout' = [called |-> TRUE, qualified_teams |-> qualified_teams,
                        stage |-> stage, matches |-> new]
        /\ error' = None
        /\ UNCHANGED frame
        /\ load_result' = None
        /\ ranking' = NoRanking
        /\ UNCHANGED <<teams, standings, NUMBER_OF_GROUPS, groups, returned, edits>>

\* render_group_stage: "Generate Quarter Finals"
AppGenerateQuarterfinals ==
    AppGenerate("group", "quarterfinal", Qualified(teams, standings, NUMBER_OF_GROUPS))

\* render_knockout_stage("quarterfinal"): "Generate Semi Finals"
AppGenerateSemifinals ==
    AppGenerate("quarterfinal", "semifinal", Winners(teams, matches, "quarterfinal"))

\* render_knockout_stage("semifinal"): "Generate Final"
AppGenerateFinal ==
    AppGenerate("semifinal", "final", Winners(teams, matches, "semifinal"))

\* "Refresh Standings": load_from_excel of the results file when it exists
AppRefresh == workbook.exists /\ LoadFromExcel(workbook)

\* the state "Initialize Tournament" leaves: n teams assigned to two groups in
\* turn, the group fixtures generated and scheduled p at a time, all saved
AppInitialized(n, p) ==
    LET res == DivideLoop(LoadedTeams(n), 0, LoadedTeams(n), <<>>, 2)
        st == InitStandings(<<>>, res.teams, 1)
        all == generate_group_stage_fixtures(res.groups)
        ms == schedule_matches(all, 0, AllPositions(all), p)
    IN  /\ teams = res.teams
        /\ groups = res.groups
        /\ standings = st
        /\ matches = ms
        /\ workbook = save_tournament(res.teams, ms, st, NoWorkbook)
        /\ NUMBER_OF_GROUPS = 2
        /\ returned = NoCall
        /\ error = None
        /\ load_result = None
        /\ knockout = NoKnockout
        /\ ranking = NoRanking
        /\ calls = 0
        /\ edits = 0
        /\ frame = NoFrame

\* the results a match list is given: a win of either side or a draw
AppResult(i) ==
    \/ AppUpdateMatchResult(i, MaxScore, 0, matches[i].team1_id)
    \/ AppUpdateMatchResult(i, 0, MaxScore, matches[i].team2_id)
    \/ AppUpdateMatchResult(i, 0, 0, NoId)

InitApp == \E n \in 2..MaxAppTeams, p \in 1..MaxParallel : AppInitialized(n, p)

NextApp ==
    \/ CountedUpTo(MaxAppCalls) /\ \E i \in 1..Len(matches) : AppResult(i)
    \/ CountedUpTo(MaxAppCalls) /\ AppGenerateQuarterfinals
    \/ CountedUpTo(MaxAppCalls) /\ AppGenerateSemifinals
    \/ CountedUpTo(MaxAppCalls) /\ AppGenerateFinal
    \/ CountedUpTo(MaxAppCalls) /\ AppRefresh

SpecApp == InitApp /\ [][NextApp]_vars

\* ------------------------------------------------------------ claims
\* the standings a fold over the completed matches gives from zeroed counters
FoldedStandings ==
    FoldCompleted([i \in 1..Len(standings) |-> ResetStanding(standings[i])], matches, 1)

\* C1: in every reachable state the standings of every team are the counters
\* zeroed and folded over every completed match of the match list.
C1_StandingsFollowMatches == standings = FoldedStandings

\* the engine fields a call can change
engine == <<teams, matches, standings>>

\* C2: recording a result for a match and then a second result for the same
\* match gives the standings that recording only the second result from the
\* starting state gives.
C2_OnlyLatestResultCounts ==
    [][\A m \in MatchIdInputs, a1 \in Scores, a2 \in Scores, w1 \in WinnerInputs :
        (MatchIndex(matches, m) # 0 /\ UpdateMatchResult(m, a1, a2, w1)) =>
            \A b1 \in Scores, b2 \in Scores, w2 \in WinnerInputs :
                LET i == MatchIndex(matches, m)
                IN  update_match_result(teams', matches', standings', i, b1, b2, w2).standings
                    = update_match_result(teams, matches, standings, i, b1, b2, w2).standings
    ]_vars

\* a result has been recorded over an earlier one, and the match counts once
C2_Witness ==
    /\ edits > 0
    /\ \E i \in 1..Len(matches) :
        /\ matches[i].status = "completed"
        /\ matches[i].winner_id = NoId
        /\ standings[StandingIndex(standings, matches[i].team1_id)].draws = 1
        /\ standings[StandingIndex(standings, matches[i].team1_id)].matches_played = 1

Delta(after, before, played, wins, losses, points, for, against) ==
    /\ after.matches_played = before.matches_played + played
    /\ after.wins = before.wins + wins
    /\ after.losses = before.losses + losses
    /\ after.draws = before.draws
    /\ after.points = before.points + points
    /\ after.score_for = before.score_for + for
    /\ after.score_against = before.score_against + against

\* C3: recording (s1, s2) with winner team1 for a scheduled match adds one win
\* and POINTS_PER_WIN to team1, one loss and no points to team2, one match
\* played and the scores to both, and leaves every other team's standings.
C3_WinDelta ==
    [][\A m \in MatchIdInputs, s1 \in Scores, s2 \in Scores :
        LET i == MatchIndex(matches, m)
        IN  (/\ i # 0
             /\ matches[i].status = "scheduled"
             /\ UpdateMatchResult(m, s1, s2, matches[i].team1_id)) =>
                /\ Len(standings') = Len(standings)
                /\ \A k \in 1..Len(standings) :
                    IF standings[k].team_id = matches[i].team1_id
                    THEN Delta(standings'[k], standings[k], 1, 1, 0, POINTS_PER_WIN, s1, s2)
                    ELSE IF standings[k].team_id = matches[i].team2_id
                    THEN Delta(standings'[k], standings[k], 1, 0, 1, 0, s2, s1)
                    ELSE standings'[k] = standings[k]
    ]_vars

\* C4: update_match_result with a match_id no match has raises the not-found
\* error and leaves teams, matches and standings as they were.
C4_UnknownMatchId ==
    [][\A m \in MatchIdInputs, s1 \in Scores, s2 \in Scores, w \in WinnerInputs :
        (/\ \A i \in 1..Len(matches) : matches[i].match_id # m
         /\ UpdateMatchResult(m, s1, s2, w)) =>
            error' = "ValueError" /\ engine' = engine
    ]_vars

\* the not-found error was raised while a completed match was in the list
C4_Witness ==
    /\ error = "ValueError"
    /\ \E i \in 1..Len(matches) : matches[i].status = "completed"

\* C5: after update_match_result(m, s1, s2, w) the match is completed with the
\* scores (s1, s2) and its winner is team1 if w is team1's id, team2 if w is
\* team2's id, and otherwise None with winner_name "Draw", whatever the scores.
C5_WinnerFromWinnerId ==
    [][\A m \in MatchIdInputs, s1 \in Scores, s2 \in Scores, w \in WinnerInputs :
        LET i == MatchIndex(matches, m)
        IN  (i # 0 /\ UpdateMatchResult(m, s1, s2, w)) =>
                LET x == matches'[i]
                IN  /\ x.status = "completed"
                    /\ x.team1_score = s1 /\ x.team2_score = s2
                    /\ IF w = x.team1_id
                       THEN x.winner_id = x.team1_id /\ x.winner_name = x.team1_name
                       ELSE IF w = x.team2_id
                       THEN x.winner_id = x.team2_id /\ x.winner_name = x.team2_name
                       ELSE x.winner_id = NoId /\ x.winner_name = "Draw"
    ]_vars

\* a match won by team2 with the score 1:0, and one drawn with the score 1:0
C5_Witness ==
    \E i \in 1..Len(matches) : \E j \in 1..Len(matches) :
        /\ matches[i].status = "completed"
        /\ matches[i].team1_score > matches[i].team2_score
        /\ matches[i].winner_id = matches[i].team2_id
        /\ matches[j].status = "completed"
        /\ matches[j].team1_score > matches[j].team2_score
        /\ matches[j].winner_name = "Draw"

\* C10: no two matches of the match list have the same match_id and every
\* match_id is a positive integer.
C10_UniqueMatchIds ==
    /\ \A i \in 1..Len(matches) : matches[i].match_id \in Nat \ {0}
    /\ \A i \in 1..Len(matches) : \A j \in 1..Len(matches) :
        matches[i].match_id = matches[j].match_id => i = j

\* every knockout round has been generated, the final as the fifth match
C10_Witness ==
    /\ Len(matches) = MaxKnockoutMatches
    /\ \E i \in 1..Len(matches) : matches[i].stage = "quarterfinal"
    /\ \E i \in 1..Len(matches) : matches[i].stage = "semifinal"
    /\ matches[Len(matches)].stage = "final"

\* C6: a load that reports failure leaves teams, matches and standings as they
\* were before the load was attempted.
C6_FailedLoadChangesNothing ==
    [][load_result' = "False" => engine' = engine]_vars

TeamIdsOf(g) == {g.teams[k].team_id : k \in 1..Len(g.teams)}

DividedAsClaimed(ts, gs) ==
    /\ \A i \in 1..Len(ts) :
        /\ ts[i].group # None
        /\ Cardinality({g \in 1..Len(gs) : ts[i].team_id \in TeamIdsOf(gs[g])}) = 1
        /\ \A g \in 1..Len(gs) :
            ts[i].team_id \in TeamIdsOf(gs[g]) => gs[g].name = ts[i].group
    /\ \A g \in 1..Len(gs) :
        /\ Cardinality(TeamIdsOf(gs[g])) = Len(gs[g].teams)
        /\ TeamIdsOf(gs[g]) \subseteq Range(Ids(ts))
    /\ Range(GroupNames(gs)) = {group_names[l] : l \in 1..Len(gs)}
    /\ \A g \in 1..Len(gs) : \A h \in 1..Len(gs) :
        Len(gs[g].teams) - Len(gs[h].teams) \in {-1, 0, 1}

\* C7: after divide_into_groups, shuffled or not, every team has one group
\* label and is in exactly the group of that label, the groups partition the
\* team list, the labels are the first letters, and two group sizes differ by
\* at most one.  (Every step of SpecDivide is a division, so calls > 0 holds
\* exactly in the states a division leaves.)
C7_GroupsPartitionTeams ==
    calls > 0 => DividedAsClaimed(teams, groups)

\* three teams shuffled again into two groups: the last team leads group A of two
C7_Witness ==
    /\ calls = MaxDivideCalls
    /\ NUMBER_OF_GROUPS = 2
    /\ Len(groups) = 2
    /\ Len(groups[1].teams) = 2
    /\ Len(groups[2].teams) = 1
    /\ groups[1].teams[1].team_id = 3
    /\ teams[3].group = "A"

\* C8: generate_round_robin_fixtures on k distinct teams returns k*(k-1)/2
\* scheduled matches with the ids match_id_start, match_id_start + 1, ... in
\* order, every pair of distinct teams in exactly one of them and no team
\* against itself.
C8_RoundRobin ==
    LET k == Len(returned.teams)
        ms == returned.matches
    IN  /\ 2 * Len(ms) = k * (k - 1)
        /\ \A i \in 1..Len(ms) :
            /\ ms[i].match_id = returned.match_id_start + (i - 1)
            /\ ms[i].status = "scheduled"
            /\ ms[i].team1_id # ms[i].team2_id
        /\ \A a \in Range(returned.teams) : \A b \in Range(returned.teams) :
            a # b => Cardinality({i \in 1..Len(ms) :
                        {ms[i].team1_id, ms[i].team2_id} = {a, b}}) = 1

\* the largest team list, not in id order, numbered from the largest start
C8_Witness ==
    /\ Len(returned.teams) = MaxRoundRobinTeams
    /\ returned.teams[1] # 1
    /\ returned.match_id_start = MaxStartId
    /\ returned.matches # <<>>

LabelPosition(label) == FirstIndex(group_names, label, 1)

GroupFixturesAsClaimed(gs, ms) ==
    /\ \A i \in 1..Len(ms) :
        /\ ms[i].match_id = i
        /\ ms[i].stage = "group" /\ ms[i].status = "scheduled"
        /\ ms[i].team1_score = 0 /\ ms[i].team2_score = 0
        /\ ms[i].winner_id = NoId /\ ms[i].winner_name = None
        /\ ms[i].scheduled_time = NoTime /\ ms[i].end_time = NoTime
        /\ ms[i].team1_id # ms[i].team2_id
        /\ \E g \in 1..Len(gs) :
            /\ ms[i].group = gs[g].name
            /\ {ms[i].team1_id, ms[i].team2_id} \subseteq TeamIdsOf(gs[g])
        /\ \A j \in i..Len(ms) : LabelPosition(ms[i].group) <= LabelPosition(ms[j].group)
    /\ \A g \in 1..Len(gs) : \A a \in TeamIdsOf(gs[g]) : \A b \in TeamIdsOf(gs[g]) :
        a # b => Cardinality({i \in 1..Len(ms) :
                    {ms[i].team1_id, ms[i].team2_id} = {a, b}}) = 1

\* C9: generate_group_stage_fixtures leaves as the match list only fresh group
\* matches: the round robin of each group, the groups in sorted label order,
\* with the ids 1, 2, ..., M in list order.
C9_GroupStageFixtures ==
    [][GenerateGroupStageFixtures => GroupFixturesAsClaimed(groups, matches')]_vars

\* fixtures of two groups generated over a list that held a completed match
C9_Witness ==
    /\ Len(matches) = 2
    /\ matches[1].group = "A" /\ matches[2].group = "B"
    /\ \A i \in 1..Len(matches) : matches[i].status = "scheduled"
    /\ \E k \in 1..Len(standings) : standings[k].matches_played > 0

\* the greatest match id of a list, 0 for the empty list
RECURSIVE MaxMatchId(_, _)
MaxMatchId(ms, i) ==
    IF i > Len(ms) THEN 0
    ELSE LET rest == MaxMatchId(ms, i + 1)
         IN  IF ms[i].match_id > rest THEN ms[i].match_id ELSE rest

\* C11: whatever the match list holds, the matches a knockout generation
\* appends carry the consecutive ids max(existing match ids) + 1, + 2, ...
C11_KnockoutIdsFromMax ==
    [][knockout'.called =>
        \A k \in 1..Len(knockout'.matches) :
            knockout'.matches[k].match_id = MaxMatchId(matches, 1) + k]_vars

\* the matches of a list in which the team with this id plays
MatchesOf(ms, id) == {k \in 1..Len(ms) : id \in {ms[k].team1_id, ms[k].team2_id}}

\* C12: given an ordered qualifier list q of even length N, knockout
\* generation emits exactly N/2 matches, the i-th of which (i from 0) has
\* team1 = q[i] and team2 = q[N-1-i], so that every qualifier is in exactly
\* one emitted match.
C12_MirroredPairs ==
    LET q == knockout.qualified_teams
        N == Len(q)
        new == knockout.matches
    IN  (knockout.called /\ N % 2 = 0) =>
            /\ Len(new) = N \div 2
            /\ SubSeq(matches, Len(matches) - Len(new) + 1, Len(matches)) = new
            /\ \A i \in 0..(N \div 2 - 1) :
                    /\ new[i + 1].team1_id = q[i + 1].team_id
                    /\ new[i + 1].team1_name = q[i + 1].team_name
                    /\ new[i + 1].team2_id = q[N - i].team_id
                    /\ new[i + 1].team2_name = q[N - i].team_name
            /\ \A j \in 1..N : Cardinality(MatchesOf(new, q[j].team_id)) = 1

\* four qualifiers, not in id order, have been paired
C12_Witness ==
    /\ knockout.called
    /\ Ids(knockout.qualified_teams) = <<3, 1, 4, 2>>
    /\ Len(matches) = 2
    /\ matches[1].team1_id = 3 /\ matches[1].team2_id = 2
    /\ matches[2].team1_id = 1 /\ matches[2].team2_id = 4

\* C13: given a qualifier list of odd length N, knockout generation raises no
\* error, emits floor(N/2) matches, and the one qualifier that is in no
\* emitted match is the last element of the list.
C13_OddDropsLast ==
    LET q == knockout.qualified_teams
        N == Len(q)
        new == knockout.matches
    IN  (knockout.called /\ N % 2 = 1) =>
            /\ error = None
            /\ Len(new) = N \div 2
            /\ {j \in 1..N : MatchesOf(new, q[j].team_id) = {}} = {N}

\* C14: a knockout generation (quarterfinals, semifinals or final) only
\* appends to the match list: every match of the list before the call is
\* afterwards at the same position with every field unchanged, and teams and
\* standings are unchanged.
C14_KnockoutOnlyAppends ==
    [][knockout'.called =>
        /\ Len(matches') = Len(matches) + Len(knockout'.matches)
        /\ SubSeq(matches', 1, Len(matches)) = matches
        /\ teams' = teams
        /\ standings' = standings]_vars

\* a semifinal has been appended after group matches with results and a
\* quarterfinal
C14_Witness ==
    /\ knockout.called
    /\ knockout.stage = "semifinal"
    /\ Len(knockout.matches) = 1
    /\ Len(matches) > 3
    /\ matches[1].stage = "group" /\ matches[1].status = "completed"
    /\ \E i \in 1..Len(matches) : matches[i].stage = "quarterfinal"

\* the group labels the teams carry, in sorted order
RECURSIVE SortedLabels(_)
SortedLabels(l) ==
    IF l > Len(group_names) THEN <<>>
    ELSE (IF \E i \in 1..Len(teams) : teams[i].group = group_names[l]
          THEN <<group_names[l]>> ELSE <<>>) \o SortedLabels(l + 1)

\* the first totalQualifiers / numberOfGroups entries of a group's ranking
TopOf(label) ==
    LET ranked == get_group_standings(standings, label)
        n == TOTAL_QUALIFIERS_FOR_KNOCKOUT \div NUMBER_OF_GROUPS
    IN  [r \in 1..(IF Len(ranked) < n THEN Len(ranked) ELSE n) |-> ranked[r]]

\* the number of qualifiers of the groups before the g-th label
RECURSIVE Offset(_)
Offset(g) == IF g <= 1 THEN 0 ELSE Offset(g - 1) + Len(TopOf(SortedLabels(1)[g - 1]))

\* C15: the qualifier list of generate_quarterfinals holds, for each group in
\* sorted label order, the first totalQualifiers / numberOfGroups teams of the
\* group's ranking in rank order, and the quarterfinals pair that list by
\* mirrored seeding.
C15_QuarterfinalQualifiers ==
    LET q == knockout.qualified_teams
        N == Len(q)
        labels == SortedLabels(1)
    IN  (knockout.called /\ knockout.stage = "quarterfinal") =>
            /\ N = Offset(Len(labels) + 1)
            /\ \A g \in 1..Len(labels) : \A r \in 1..Len(TopOf(labels[g])) :
                    /\ q[Offset(g) + r].team_id = TopOf(labels[g])[r].team_id
                    /\ q[Offset(g) + r] \in Range(teams)
            /\ Len(knockout.matches) = N \div 2
            /\ \A i \in 1..(N \div 2) :
                    /\ knockout.matches[i].team1_id = q[i].team_id
                    /\ knockout.matches[i].team2_id = q[N + 1 - i].team_id
                    /\ knockout.matches[i].stage = "quarterfinal"

\* nine teams in two groups: Team 3 beat Team 1 and leads group A, the fifth of
\* group A is left out, and the quarterfinals are A1-B4, A2-B3, A3-B2, A4-B1
C15_Witness ==
    /\ knockout.called
    /\ NUMBER_OF_GROUPS = 2
    /\ Len(get_group_standings(standings, "A")) = 5
    /\ Len(get_group_standings(standings, "B")) = 4
    /\ Cardinality(Completed(matches)) = MaxQualifyResults
    /\ Len(knockout.matches) = 4
    /\ knockout.qualified_teams[1].team_id = 3
    /\ \A i \in 1..4 :
            /\ knockout.matches[i].team1_id
                    = get_group_standings(standings, "A")[i].team_id
            /\ knockout.matches[i].team2_id
                    = get_group_standings(standings, "B")[5 - i].team_id

\* C16: from 8 teams and 2 groups, the division gives 2 groups of 4 and the
\* group fixtures are 12 matches; once all 12 are completed, whatever the
\* results, get_top_teams_from_groups returns exactly 4 teams per group, and
\* one generate_quarterfinals call appends exactly 4 quarterfinals in which
\* each of the 8 teams appears exactly once.
C16_EightTeamsToQuarterfinals ==
    /\ groups # <<>> =>
            /\ Len(groups) = 2
            /\ \A g \in 1..Len(groups) : Len(groups[g].teams) = 4
    /\ (matches # <<>> /\ ~knockout.called) => Len(matches) = 12
    /\ Cardinality(Completed(matches)) = 12 =>
            LET top == get_top_teams_from_groups(teams, standings, NUMBER_OF_GROUPS)
            IN  /\ Len(top) = 2
                /\ \A g \in 1..Len(top) :
                        /\ Len(top[g].standings) = 4
                        /\ \A r \in 1..4 : top[g].standings[r].group = top[g].name
    /\ knockout.called =>
            /\ Len(knockout.matches) = 4
            /\ matches = SubSeq(matches, 1, 12) \o knockout.matches
            /\ \A i \in 1..4 : knockout.matches[i].stage = "quarterfinal"
            /\ \A t \in 1..8 : Cardinality(MatchesOf(knockout.matches, teams[t].team_id)) = 1

\* the quarterfinals have been generated after twelve results, one a draw
C16_Witness ==
    /\ knockout.called
    /\ Cardinality(Completed(matches)) = 12
    /\ Cardinality(Drawn(matches)) = MaxDraws
    /\ Len(matches) = 16
    /\ matches[13].team1_id # 1

\* the stage whose winners a knockout stage is generated from
PreviousStage(stage) == IF stage = "semifinal" THEN "quarterfinal" ELSE "semifinal"

\* the positions of the completed matches of a stage that have a winner
Decided(ms, stage) ==
    {i \in 1..Len(ms) :
        ms[i].stage = stage /\ ms[i].status = "completed" /\ ms[i].winner_id # NoId}

\* C17: the qualifier list generate_semifinals (generate_final) pairs is
\* exactly the winners of the completed quarterfinal (semifinal) matches in
\* match list order; matches of that stage that are not completed or have no
\* winner, and matches of other stages, contribute nothing.
C17_WinnersOfPreviousStage ==
    (knockout.called /\ knockout.stage \in {"semifinal", "final"}) =>
        LET q == knockout.qualified_teams
            before == SubSeq(matches, 1, Len(matches) - Len(knockout.matches))
            from == Decided(before, PreviousStage(knockout.stage))
        IN  /\ Len(q) = Cardinality(from)
            /\ \A i \in from :
                    LET k == Cardinality({j \in from : j <= i})
                    IN  /\ q[k].team_id = before[i].winner_id
                        /\ q[k] \in Range(teams)

\* the semifinal pairs the winners of the first and the third quarterfinal:
\* the second was drawn, and a group match is completed too
C17_Witness ==
    /\ knockout.called
    /\ knockout.stage = "semifinal"
    /\ Len(knockout.qualified_teams) = 2
    /\ \E i \in 1..Len(matches), j \in 1..Len(matches), k \in 1..Len(matches) :
            /\ i < j /\ j < k
            /\ matches[i].stage = "quarterfinal" /\ matches[i].winner_id # NoId
            /\ matches[j].stage = "quarterfinal" /\ matches[j].status = "completed"
            /\ matches[j].winner_id = NoId
            /\ matches[k].stage = "quarterfinal" /\ matches[k].winner_id # NoId

\* the position of an entry in the standings collection
Encounter(s) == StandingIndex(standings, s.team_id)

\* a and b have the same points and tiebreaker scores
SameKeys(a, b) ==
    /\ a.points = b.points
    /\ tiebreaker_score_difference(a) = tiebreaker_score_difference(b)
    /\ a.tiebreaker_score_for = b.tiebreaker_score_for

\* C18: get_group_standings(g) returns exactly the standings of the teams of
\* group g (of all teams when g is omitted); of two entries a before b, a has
\* more points, or equal points and a greater tiebreaker score difference, or
\* both equal and a tiebreaker score-for greater or equal; entries equal on
\* all three keys keep their encounter order in the standings collection.
C18_GroupStandingsOrder ==
    ranking.called =>
        LET r == ranking.list
            of_group == {i \in 1..Len(standings) :
                            ranking.group = None \/ standings[i].group = ranking.group}
        IN  /\ Len(r) = Cardinality(of_group)
            /\ Range(r) = {standings[i] : i \in of_group}
            /\ \A x \in 1..Len(r) : \A y \in 1..Len(r) :
                    x < y =>
                        /\ \/ r[x].points > r[y].points
                           \/ /\ r[x].points = r[y].points
                              /\ tiebreaker_score_difference(r[x])
                                    > tiebreaker_score_difference(r[y])
                           \/ /\ r[x].points = r[y].points
                              /\ tiebreaker_score_difference(r[x])
                                    = tiebreaker_score_difference(r[y])
                              /\ r[x].tiebreaker_score_for >= r[y].tiebreaker_score_for
                        /\ SameKeys(r[x], r[y]) => Encounter(r[x]) < Encounter(r[y])

\* all three teams ranked, of two groups: the third leads on points and the
\* first is ahead of the second on score-for alone
C18_Witness ==
    /\ ranking.called
    /\ ranking.group = None
    /\ Ids(ranking.list) = <<3, 1, 2>>
    /\ ranking.list[2].points = ranking.list[3].points
    /\ tiebreaker_score_difference(ranking.list[2])
            = tiebreaker_score_difference(ranking.list[3])
    /\ ranking.list[2].tiebreaker_score_for > ranking.list[3].tiebreaker_score_for
    /\ standings[2].group # standings[1].group

\* the positions in the match list of the matches a schedule_matches call is
\* given: the whole list, or the matches of a stage
Supplied(which) ==
    IF which = "all" THEN AllPositions(matches) ELSE get_matches_by_stage(matches, which)

\* ceil(m / p)
Ceil(m, p) == (m + p - 1) \div p

\* C19: after schedule_matches on a list of m matches with parallel_matches
\* = p >= 1, the supplied matches carry exactly ceil(m/p) distinct
\* scheduled_time values and no value is shared by more than p of them.
C19_BatchesOfParallelMatches ==
    [][\A t \in ScheduleStarts, which \in ScheduleSelections,
        p \in 1..MaxScheduleParallel :
        ScheduleMatches(t, which, p) =>
            LET sel == Supplied(which)
                m == Len(sel)
                times == {matches'[sel[k]].scheduled_time : k \in 1..m}
            IN  /\ Cardinality(times) = Ceil(m, p)
                /\ NoTime \notin times
                /\ \A x \in times :
                        Cardinality({k \in 1..m : matches'[sel[k]].scheduled_time = x}) <= p
    ]_vars

\* two group matches and two quarterfinals are scheduled three at a time, in
\* two batches of three and one
C19_Witness ==
    /\ Len(get_matches_by_stage(matches, "group")) = 2
    /\ Len(get_matches_by_stage(matches, "quarterfinal")) = 2
    /\ matches[1].scheduled_time = 0
    /\ matches[2].scheduled_time = 0
    /\ matches[3].scheduled_time = 0
    /\ matches[4].scheduled_time = Duration

\* C20: schedule_matches gives the match at position k (from 0) of the
\* supplied list scheduled_time = start_time + floor(k/p) * D and end_time =
\* scheduled_time + D, D the match duration: batches are consecutive in list
\* order, and each batch starts when the one before it ends.
C20_BatchTimes ==
    [][\A t \in ScheduleStarts, which \in ScheduleSelections,
        p \in 1..MaxScheduleParallel :
        ScheduleMatches(t, which, p) =>
            LET sel == Supplied(which)
                D == MATCH_DURATION_MINUTES * SecondsPerMinute
            IN  /\ \A k \in 0..(Len(sel) - 1) :
                        /\ matches'[sel[k + 1]].scheduled_time = t + (k \div p) * D
                        /\ matches'[sel[k + 1]].end_time
                                = matches'[sel[k + 1]].scheduled_time + D
                /\ \A k \in 1..(Len(sel) - 1) :
                        \/ matches'[sel[k + 1]].scheduled_time
                                = matches'[sel[k]].scheduled_time
                        \/ matches'[sel[k + 1]].scheduled_time = matches'[sel[k]].end_time
    ]_vars

\* a list of four matches scheduled from a minute past the hour, two at a
\* time: the second batch starts when the first ends
C20_Witness ==
    /\ Len(matches) = 4
    /\ matches[1].scheduled_time = SecondsPerMinute
    /\ matches[2].scheduled_time = SecondsPerMinute
    /\ matches[2].end_time = SecondsPerMinute + Duration
    /\ matches[3].scheduled_time = matches[2].end_time
    /\ matches[4].scheduled_time = matches[3].scheduled_time
    /\ matches[4].end_time = SecondsPerMinute + 2 * Duration

\* the fields of a match that schedule_matches does not write
Unscheduled(m) == [m EXCEPT !.scheduled_time = NoTime, !.end_time = NoTime]

\* C21: schedule_matches called with the matches of one stage changes
\* scheduled_time and end_time of the supplied matches only: every match not
\* supplied is unchanged, every other field of every match is unchanged, and
\* so are the teams, the groups and the standings.
C21_SchedulingFrame ==
    [][\A t \in ScheduleStarts, which \in ScheduleSelections \ {"all"},
        p \in 1..MaxScheduleParallel :
        ScheduleMatches(t, which, p) =>
            LET sel == Supplied(which)
            IN  /\ Len(matches') = Len(matches)
                /\ \A i \in 1..Len(matches) :
                        /\ Unscheduled(matches'[i]) = Unscheduled(matches[i])
                        /\ i \notin Range(sel) => matches'[i] = matches[i]
                /\ standings' = standings
                /\ teams' = teams
                /\ groups' = groups
    ]_vars

\* the quarterfinals were scheduled a minute past the hour while the group
\* matches keep the times of an earlier call on the whole list
C21_Witness ==
    /\ Len(get_matches_by_stage(matches, "group")) = 2
    /\ Len(get_matches_by_stage(matches, "quarterfinal")) = 2
    /\ matches[1].scheduled_time = 0
    /\ matches[2].scheduled_time = Duration
    /\ matches[3].scheduled_time = SecondsPerMinute
    /\ matches[4].scheduled_time = SecondsPerMinute

\* C22: saving and then loading reproduces the teams, the matches and the
\* standings field for field: a group, a time or a winner that is None comes
\* back as None and every time is the same instant.
C22_SaveLoadRoundTrip ==
    [][(/\ workbook.exists
        /\ workbook = to_dataframes(teams, matches, standings)
        /\ LoadFromExcel(workbook))
       => /\ load_result' = "True"
          /\ teams' = teams
          /\ matches' = matches
          /\ Range(standings') = Range(standings)
    ]_vars

\* C23: every match's status is scheduled or completed, a status changes
\* only from scheduled to completed, and a match id that is completed is not
\* scheduled after any further engine operation.
C23_CompletedStaysCompleted ==
    [][/\ \A j \in 1..Len(matches') : matches'[j].status \in {"scheduled", "completed"}
       /\ \A i \in 1..Len(matches), j \in 1..Len(matches') :
            (matches[i].status = "completed" /\ matches'[j].match_id = matches[i].match_id)
                => matches'[j].status = "completed"
    ]_vars

\* the matches of a stage, and whether all of them are completed
AllCompleted(stage) ==
    \A i \in 1..Len(matches) : matches[i].stage = stage => matches[i].status = "completed"
Exists(stage) == \E i \in 1..Len(matches) : matches[i].stage = stage

\* C24: the presentation layer generates a stage only when the stage before it
\* has matches and all of them are completed; hence whenever a match of a later
\* stage exists, every match of the preceding stage is completed.
C24_StagesFollowCompletedStages ==
    /\ Exists("quarterfinal") => (Exists("group") /\ AllCompleted("group"))
    /\ Exists("semifinal") => AllCompleted("quarterfinal")
    /\ Exists("final") => AllCompleted("semifinal")

\* C25: a team's group is None until group assignment sets it, and once set
\* it is not changed by any further engine operation, a repeated group
\* division included.
C25_GroupSetOnce ==
    [][\A i \in 1..Len(teams), j \in 1..Len(teams') :
        (teams'[j].team_id = teams[i].team_id /\ teams[i].group # None)
            => teams'[j].group = teams[i].group
    ]_vars

\* the completed matches a team is in, and those of them it won, lost, drew
PlayedBy(id) ==
    {i \in Completed(matches) : id \in {matches[i].team1_id, matches[i].team2_id}}
WonBy(id) == {i \in PlayedBy(id) : matches[i].winner_id = id}
DrawnBy(id) == {i \in PlayedBy(id) : matches[i].winner_id = NoId}
LostBy(id) == PlayedBy(id) \ (WonBy(id) \cup DrawnBy(id))

RECURSIVE Total(_, _, _)
Total(st, field, i) ==
    IF i > Len(st) THEN 0
    ELSE (IF field = "wins" THEN st[i].wins ELSE st[i].losses) + Total(st, field, i + 1)

TeamsIn(ms) == UNION {{ms[i].team1_id, ms[i].team2_id} : i \in 1..Len(ms)}

\* C27: with every match of the stage before completed, generate_semifinals
\* on 4 quarterfinals appends exactly 2 semifinals of 4 distinct teams and
\* generate_final on 2 semifinals appends exactly 1 final, whatever results,
\* wins or draws, the stage before was given.
C27_FullBracket ==
    /\ (/\ knockout.called /\ knockout.stage = "semifinal"
        /\ Len(get_matches_by_stage(matches, "quarterfinal")) = 4
        /\ AllCompleted("quarterfinal"))
       => /\ Len(knockout.matches) = 2
          /\ Cardinality(TeamsIn(knockout.matches)) = 4
    /\ (/\ knockout.called /\ knockout.stage = "final"
        /\ Len(get_matches_by_stage(matches, "semifinal")) = 2
        /\ AllCompleted("semifinal"))
       => Len(knockout.matches) = 1

\* the ids of the current winners of the completed matches of a stage
CurrentWinners(stage) == Range(WinnerIds(matches, stage, 1))

\* C28: both teams of every semifinal are current winners of completed
\* quarterfinals and both teams of every final are current winners of
\* completed semifinals, also after the result of a completed match of the
\* earlier stage is recorded again by update_match_result.
C28_LaterStagesHoldCurrentWinners ==
    \A i \in 1..Len(matches) :
        /\ matches[i].stage = "semifinal"
            => {matches[i].team1_id, matches[i].team2_id} \subseteq CurrentWinners("quarterfinal")
        /\ matches[i].stage = "final"
            => {matches[i].team1_id, matches[i].team2_id} \subseteq CurrentWinners("semifinal")

\* the matches of a stage a team is named in, a match against itself twice
Appearances(stage, id) ==
    LET sel == get_matches_by_stage(matches, stage)
    IN  Cardinality({k \in 1..Len(sel) : matches[sel[k]].team1_id = id})
        + Cardinality({k \in 1..Len(sel) : matches[sel[k]].team2_id = id})

\* C29: through the stage-generation buttons no team is in more than one
\* match of the same knockout stage, and there are at most 4 quarterfinals, 2
\* semifinals and 1 final: a stage that was generated is not generated again.
C29_StagesGeneratedOnce ==
    /\ \A stage \in KnockoutStages, i \in 1..Len(teams) :
            Appearances(stage, teams[i].team_id) <= 1
    /\ Len(get_matches_by_stage(matches, "quarterfinal")) <= 4
    /\ Len(get_matches_by_stage(matches, "semifinal")) <= 2
    /\ Len(get_matches_by_stage(matches, "final")) <= 1

\* every match the call was handed has its two times
AllScheduled ==
    \A k \in 1..Len(frame.sel) :
        /\ matches[frame.sel[k]].scheduled_time # NoTime
        /\ matches[frame.sel[k]].end_time # NoTime

\* C30: schedule_matches terminates on every match list for every integer
\* parallel_matches, 0 and negative values included, and when it has
\* terminated every supplied match has a scheduled_time and an end_time.
C30_ScheduleTerminates ==
    (frame.state = "running") ~> (frame.state = "returned" /\ AllScheduled)

====
